---------------------------- MODULE Spec2Model ----------------------------
(***************************************************************************)
(* Mermaid import / export of project-graph.                               *)
(*                                                                         *)
(* Import (addNodeMermaidByText): a line-by-line pass over diagram text    *)
(* that keeps an identifier table (entityMap), a container stack           *)
(* (sectionStack), the children of every container (sectionChildrenMap)    *)
(* and a queue of edges (pendingEdges) that is resolved at the end of the  *)
(* pass.  Export (getMermaidTextByEntites) is modelled further below.      *)
(***************************************************************************)
EXTENDS Integers, Sequences, FiniteSets, TLC

\* ------------------------------------------------------------------ bounds

\* Longest diagram text, in logical lines, that one import pass reads.
MaxLines == 4

\* ------------------------------------------------------------- vocabulary

\* Identifiers that a node declaration may carry; "" is the token whose
\* identifier part is empty.
NodeIds == {"A", "B"}
\* Identifiers that a subgraph line may carry ("A" is shared with the nodes).
SectionIds == {"S", "T", "A"}
\* Label texts: "section" matches the container heuristic, "x" does not.
Labels == {"x", "section"}
\* The directions written after graph / flowchart.
Directions == {"LR", "XX"}

MkLine(k, id, label, src, dst) ==
  [kind |-> k, id |-> id, label |-> label, src |-> src, dst |-> dst]

DirectionLines == {MkLine("direction", d, "", "", "") : d \in Directions}
OpenLines == {MkLine("open", s, s, "", "") : s \in SectionIds}
CloseLine == MkLine("close", "", "", "", "")
NodeLines == {MkLine("node", n, l, "", "") : n \in NodeIds, l \in Labels}
BadNodeLine == MkLine("node", "", "x", "", "")
EdgeLines == {MkLine("edge", "", "", "A", "B"), MkLine("edge", "", "", "B", "A")}
UnrecognizedLine == MkLine("unrecognized", "", "", "", "")

\* ------------------------------------------------------------------ state

VARIABLES
  lines,              \* the logical lines read so far, in order
  pc,                 \* "read" | "done" | "aborted" (an Error was thrown)
  entities,           \* the entities created, in creation order
  entityMap,          \* identifier -> entity (index into entities)
  sectionStack,       \* the containers currently open
  sectionChildrenMap, \* entity -> its children, in attachment order
  rootEntities,       \* the entities attached to the document root
  pendingEdges,       \* the deferred edge queue
  edges,              \* the edges realized at the end of the pass
  diagnostics,        \* the diagnostics reported, in order
  direction,          \* the layout-direction hint
  rt,                 \* one export -> re-import round trip of a node or an edge
  idp,                \* the identifier synthesis of one export call
  ex,                 \* the grouping and emission of one export call
  cl,                 \* the classification of one line of diagram text
  nz,                 \* one run of the lexical normalizer over raw text
  ly,                 \* the layout of one batch of imported entities
  sz,                 \* the sizing of the containers of one import
  ci,                 \* two imports into two documents, interleaved
  br,                 \* the HTTP bridge and the file queue it shares with the app
  sv                  \* the MCP server of the app and the project it serves

importVars == <<lines, pc, entities, entityMap, sectionStack, sectionChildrenMap,
                rootEntities, pendingEdges, edges, diagnostics, direction>>

otherVars == <<rt, idp, ex, cl, nz, ly, sz, ci, br, sv>>

vars == <<importVars, otherVars>>

\* --------------------------------------------------------------- helpers

EmptyMap == [x \in {} |-> 0]

Top(stack) == stack[Len(stack)]

Pop(stack) == SubSeq(stack, 1, Len(stack) - 1)

Range(s) == {s[k] : k \in DOMAIN s}

\* An ordered set: appending a member that is already there changes nothing.
AppendNew(s, e) == IF e \in Range(s) THEN s ELSE Append(s, e)

Diag(ln, msg) == [line |-> ln, message |-> msg, severity |-> "warning"]

\* The builder's state as one value.
Builder ==
  [pc |-> pc, entities |-> entities, entityMap |-> entityMap,
   sectionStack |-> sectionStack, sectionChildrenMap |-> sectionChildrenMap,
   rootEntities |-> rootEntities, pendingEdges |-> pendingEdges,
   edges |-> edges, diagnostics |-> diagnostics, direction |-> direction]

EmptyBuilder ==
  [pc |-> "read", entities |-> <<>>, entityMap |-> EmptyMap,
   sectionStack |-> <<>>, sectionChildrenMap |-> <<>>,
   rootEntities |-> <<>>, pendingEdges |-> <<>>,
   edges |-> <<>>, diagnostics |-> <<>>, direction |-> "TD"]

\* ------------------------------------------------------------- handlers

\* The container heuristic: forced, or the label contains a container word.
shouldTreatAsSection(label, forceSection) ==
  IF forceSection THEN TRUE
  ELSE IF label = "" THEN FALSE
  ELSE label = "section"

\* Attach entity e under the container on top of the stack, or under the root.
AttachToCurrent(b, e) ==
  IF b.sectionStack = <<>>
  THEN [b EXCEPT !.rootEntities = AppendNew(@, e)]
  ELSE [b EXCEPT !.sectionChildrenMap[Top(b.sectionStack)] = AppendNew(@, e)]

\* CreateEntity that takes over the last entity of the document, where there
\* is one, instead of asking the host for a new one.
CreateEntityInPlace(b, id, label, kind) ==
  LET e == IF b.entities = <<>> THEN 1 ELSE Len(b.entities) IN
  [b EXCEPT !.entities = [k \in 1..e |-> IF k = e THEN [kind |-> kind, label |-> label]
                                         ELSE @[k]],
            !.sectionChildrenMap = [k \in 1..e |-> IF k = e THEN <<>> ELSE @[k]],
            !.entityMap = [x \in DOMAIN @ \cup {id} |-> IF x = id THEN e ELSE @[x]]]

\* Ask the host for a new entity and register it under id.
CreateEntity(b, id, label, kind) ==
  LET e == Len(b.entities) + 1 IN
  [b EXCEPT !.entities = Append(@, [kind |-> kind, label |-> label]),
            !.sectionChildrenMap = Append(@, <<>>),
            !.entityMap = [x \in DOMAIN @ \cup {id} |-> IF x = id THEN e ELSE @[x]]]

\* graph <DIR> / flowchart <DIR>: record the hint, create nothing.
SetDirection(b, d) ==
  [b EXCEPT !.direction = IF d \in {"TD", "LR"} THEN d ELSE "TD"]

\* subgraph <id>: create the container or reuse the entity the identifier
\* already resolves to, and open it.
ContainerPush(b, id, label) ==
  IF id \in DOMAIN b.entityMap
  THEN [b EXCEPT !.sectionStack = Append(@, b.entityMap[id])]
  ELSE LET c == CreateEntity(b, id, label, "Section")
           e == c.entityMap[id]
       IN [AttachToCurrent(c, e) EXCEPT !.sectionStack = Append(@, e)]

\* ContainerPop that lets a close with no open container pass unreported.
ContainerPopUnreported(b, ln) ==
  IF b.sectionStack = <<>> THEN b ELSE [b EXCEPT !.sectionStack = Pop(@)]

\* ContainerPop with the pop forgotten.
ContainerPopKeepsOpen(b, ln) ==
  IF b.sectionStack = <<>>
  THEN [b EXCEPT !.diagnostics = Append(@, Diag(ln, "close without open container"))]
  ELSE b

\* end: close the innermost open container; report a close with none open.
ContainerPop(b, ln) ==
  IF b.sectionStack = <<>>
  THEN [b EXCEPT !.diagnostics = Append(@, Diag(ln, "close without open container"))]
  ELSE [b EXCEPT !.sectionStack = Pop(@)]

\* A node token whose identifier part is empty cannot be parsed: the parser
\* throws, and nothing catches it inside the pass.
parseNodeTokenThrows(id) == id = ""

\* DeclareNode that never looks the identifier up: every declaration creates.
DeclareNodeAlwaysCreates(b, id, label) ==
  IF parseNodeTokenThrows(id)
  THEN [b EXCEPT !.pc = "aborted"]
  ELSE LET kind == IF shouldTreatAsSection(label, FALSE) THEN "Section" ELSE "TextNode"
           c == CreateEntity(b, id, label, kind)
       IN AttachToCurrent(c, c.entityMap[id])

\* A bare node declaration.
DeclareNode(b, id, label) ==
  IF parseNodeTokenThrows(id)
  THEN [b EXCEPT !.pc = "aborted"]
  ELSE IF id \in DOMAIN b.entityMap
  THEN AttachToCurrent([b EXCEPT !.entities[b.entityMap[id]].label = label],
                       b.entityMap[id])
  ELSE LET kind == IF shouldTreatAsSection(label, FALSE) THEN "Section" ELSE "TextNode"
           c == CreateEntity(b, id, label, kind)
       IN AttachToCurrent(c, c.entityMap[id])

\* QueueEdge that resolves on the spot: an edge whose endpoint is not yet in
\* the identifier table is reported and dropped when its line is read.
QueueEdgeResolvesAtOnce(b, src, dst, ln) ==
  IF src \in DOMAIN b.entityMap /\ dst \in DOMAIN b.entityMap
  THEN [b EXCEPT !.pendingEdges = Append(@, [source |-> src, target |-> dst, line |-> ln])]
  ELSE [b EXCEPT !.diagnostics = Append(@, Diag(ln, "unresolved edge endpoint"))]

\* An edge statement: queued, not resolved.
QueueEdge(b, src, dst, ln) ==
  [b EXCEPT !.pendingEdges = Append(@, [source |-> src, target |-> dst, line |-> ln])]

\* A line that is none of the above.
ReportUnrecognized(b, ln) ==
  [b EXCEPT !.diagnostics = Append(@, Diag(ln, "unrecognized line"))]

\* Whether both endpoints of a queued edge are in the identifier table.
Resolves(map, pe) == pe.source \in DOMAIN map /\ pe.target \in DOMAIN map

\* EndPass that drops an unresolved edge without reporting it.
EndPassSilentDrop(b, ln) ==
  LET Ok(pe) == Resolves(b.entityMap, pe)
      good == SelectSeq(b.pendingEdges, Ok)
      realized == [k \in DOMAIN good |->
                     [source |-> b.entityMap[good[k].source],
                      target |-> b.entityMap[good[k].target],
                      line |-> good[k].line]]
      open == [k \in DOMAIN b.sectionStack |->
                 Diag(ln, "unterminated container")]
  IN [b EXCEPT !.edges = realized,
               !.diagnostics = @ \o open,
               !.sectionStack = <<>>,
               !.pc = "done"]

\* End of pass: resolve the queue in order, then close what is still open.
EndPass(b, ln) ==
  LET Ok(pe) == Resolves(b.entityMap, pe)
      Bad(pe) == ~Resolves(b.entityMap, pe)
      good == SelectSeq(b.pendingEdges, Ok)
      bad == SelectSeq(b.pendingEdges, Bad)
      realized == [k \in DOMAIN good |->
                     [source |-> b.entityMap[good[k].source],
                      target |-> b.entityMap[good[k].target],
                      line |-> good[k].line]]
      dropped == [k \in DOMAIN bad |-> Diag(bad[k].line, "unresolved edge endpoint")]
      open == [k \in DOMAIN b.sectionStack |->
                 Diag(ln, "unterminated container")]
  IN [b EXCEPT !.edges = realized,
               !.diagnostics = @ \o dropped \o open,
               !.sectionStack = <<>>,
               !.pc = "done"]

\* What one line does to the builder.
HandleLine(b, l, ln) ==
  CASE l.kind = "direction" -> SetDirection(b, l.id)
    [] l.kind = "open" -> ContainerPush(b, l.id, l.label)
    [] l.kind = "close" -> ContainerPop(b, ln)
    [] l.kind = "edge" -> QueueEdge(b, l.src, l.dst, ln)
    [] l.kind = "node" -> DeclareNode(b, l.id, l.label)
    [] OTHER -> ReportUnrecognized(b, ln)

RECURSIVE Replay(_, _)
Replay(ls, n) ==
  IF n = 0 THEN EmptyBuilder
  ELSE LET b == Replay(ls, n - 1)
       IN IF b.pc = "read" THEN HandleLine(b, ls[n], n) ELSE b

\* ===================================================== export -> re-import

\* Longest node label, in characters, that a round trip carries.
MaxLabelLen == 2

\* The characters of a label: a letter, a blank, a digit, a double quote.
LabelChars == {"a", " ", "1", "\""}

ShapeKind ==
  {"rectangle", "rounded", "circle", "rhombus", "stadium",
   "hexagon", "parallelogram", "trapezoid"}

EdgeStyle == {"solid", "dashed", "thick", "undirected", "bidirectional"}

\* Texts are sequences of characters; "&quot;" and "<br>" stand for the
\* escape sequences, "\n" for a line break inside a label.
Texts(n) == UNION {[1..k -> LabelChars] : k \in 0..n}

RECURSIVE TrimLeft(_)
TrimLeft(t) == IF t /= <<>> /\ Head(t) = " " THEN TrimLeft(Tail(t)) ELSE t

RECURSIVE TrimRight(_)
TrimRight(t) ==
  IF t /= <<>> /\ t[Len(t)] = " " THEN TrimRight(SubSeq(t, 1, Len(t) - 1)) ELSE t

Trim(t) == TrimRight(TrimLeft(t))

IsDigit(c) == c \in {"0", "1", "2", "3", "4", "5", "6", "7", "8", "9"}

\* The first position of character c in t, 0 when there is none.
FirstIndexOf(t, c) ==
  IF \E k \in DOMAIN t : t[k] = c
  THEN CHOOSE k \in DOMAIN t : t[k] = c /\ \A j \in 1..(k - 1) : t[j] /= c
  ELSE 0

\* line.indexOf(needle), 1-based; 0 when the needle does not occur.
IndexOf(t, needle) ==
  LET At(k) == k + Len(needle) - 1 <= Len(t)
               /\ SubSeq(t, k, k + Len(needle) - 1) = needle
  IN IF \E k \in DOMAIN t : At(k)
     THEN CHOOSE k \in DOMAIN t : At(k) /\ \A j \in 1..(k - 1) : ~At(j)
     ELSE 0

StartsWith(t, pre) == Len(t) >= Len(pre) /\ SubSeq(t, 1, Len(pre)) = pre

EndsWith(t, suf) ==
  Len(t) >= Len(suf) /\ SubSeq(t, Len(t) - Len(suf) + 1, Len(t)) = suf

\* " <-> &quot; and line break <-> <br>, as written on export ...
EncodeMermaidText(t) ==
  [k \in DOMAIN t |-> IF t[k] = "\"" THEN "&quot;"
                      ELSE IF t[k] = "\n" THEN "<br>" ELSE t[k]]

\* ... and as read back on import.
decodeMermaidText(t) ==
  [k \in DOMAIN t |-> IF t[k] = "&quot;" THEN "\""
                      ELSE IF t[k] = "<br>" THEN "\n" ELSE t[k]]

\* The identifier an exported node gets before collisions are looked at:
\* its trimmed text, node_<first 8 of the uuid> when that is empty, and an
\* underscore in front of a leading digit.
BaseId(text, uuid) ==
  LET baseId == Trim(text) IN
  IF baseId = <<>> THEN <<"node_", uuid>>
  ELSE IF IsDigit(baseId[1]) THEN <<"_">> \o baseId
  ELSE baseId

\* The line export writes for a node: always the quoted square brackets,
\* whatever the node's shape.
NodeLine(nodeId, shape, text) ==
  nodeId \o <<"[", "\"">> \o EncodeMermaidText(text) \o <<"\"", "]">>

\* One shape pattern /^([^o]+) open (.*) close$/ applied to a token: the
\* identifier is what precedes the first character o (and must not be empty
\* nor hold a character of `never`), `open` follows it, `close` ends the token.
MatchShape(t, never, open, close) ==
  LET p == FirstIndexOf(t, open[1])
      rest == SubSeq(t, p, Len(t))
      ok == /\ p >= 2
            /\ \A j \in 1..(p - 1) : t[j] \notin never
            /\ StartsWith(rest, open)
            /\ EndsWith(rest, close)
            /\ Len(rest) >= Len(open) + Len(close)
  IN IF ok
     THEN [ok |-> TRUE, id |-> SubSeq(t, 1, p - 1),
           label |-> SubSeq(rest, Len(open) + 1, Len(rest) - Len(close))]
     ELSE [ok |-> FALSE, id |-> <<>>, label |-> <<>>]

\* The shape patterns tried in the order of the table of supported shapes.
ShapePatternsInTableOrder ==
  << [shape |-> "rectangle", never |-> {"["}, open |-> <<"[">>, close |-> <<"]">>],
     [shape |-> "rectangle", never |-> {"["}, open |-> <<"[", "\"">>, close |-> <<"\"", "]">>],
     [shape |-> "circle", never |-> {"("}, open |-> <<"(", "(">>, close |-> <<")", ")">>],
     [shape |-> "rounded", never |-> {"("}, open |-> <<"(">>, close |-> <<")">>],
     [shape |-> "rhombus", never |-> {"{", "}"}, open |-> <<"{">>, close |-> <<"}">>],
     [shape |-> "stadium", never |-> {"["}, open |-> <<"[", "(">>, close |-> <<")", "]">>] >>

\* The shape patterns, the more specific delimiter pair first.
ShapePatterns ==
  << [shape |-> "rectangle", never |-> {"["}, open |-> <<"[", "\"">>, close |-> <<"\"", "]">>],
     [shape |-> "stadium", never |-> {"["}, open |-> <<"[", "(">>, close |-> <<")", "]">>],
     [shape |-> "circle", never |-> {"("}, open |-> <<"(", "(">>, close |-> <<")", ")">>],
     [shape |-> "rectangle", never |-> {"["}, open |-> <<"[">>, close |-> <<"]">>],
     [shape |-> "rounded", never |-> {"("}, open |-> <<"(">>, close |-> <<")">>],
     [shape |-> "rhombus", never |-> {"{", "}"}, open |-> <<"{">>, close |-> <<"}">>] >>

\* The node token of a line: the first pattern that matches gives the shape;
\* a token that matches none is a bare identifier.
parseNodeToken(t) ==
  LET content == Trim(t)
      hits == {k \in DOMAIN ShapePatterns :
                 MatchShape(content, ShapePatterns[k].never,
                            ShapePatterns[k].open, ShapePatterns[k].close).ok}
  IN IF hits = {}
     THEN [id |-> decodeMermaidText(content), label |-> decodeMermaidText(content),
           shape |-> "rectangle"]
     ELSE LET k == CHOOSE h \in hits : \A g \in hits : h <= g
              m == MatchShape(content, ShapePatterns[k].never,
                              ShapePatterns[k].open, ShapePatterns[k].close)
          IN [id |-> decodeMermaidText(Trim(m.id)),
              label |-> decodeMermaidText(m.label),
              shape |-> ShapePatterns[k].shape]

\* The operator export writes for an edge: `-->` for every edge.
EdgeOperator(style) == <<"-", "-", ">">>

EdgeLine(sourceId, targetId, style) ==
  sourceId \o <<" ">> \o EdgeOperator(style) \o <<" ">> \o targetId

\* The edge statement of a line: the text left and right of the first `-->`;
\* no other operator is looked for, and the edge read is a plain one.
parseEdgeLine(t) ==
  LET arrowIndex == IndexOf(t, <<"-", "-", ">">>) IN
  IF arrowIndex = 0
  THEN [ok |-> FALSE, source |-> <<>>, target |-> <<>>, style |-> "solid"]
  ELSE [ok |-> TRUE,
        source |-> parseNodeToken(SubSeq(t, 1, arrowIndex - 1)).id,
        target |-> parseNodeToken(SubSeq(t, arrowIndex + 3, Len(t))).id,
        style |-> "solid"]

RtIdle == [phase |-> "idle", kind |-> "none"]

EndpointIds == {<<"A">>, <<"B">>}

NodeItems ==
  {[phase |-> "host", kind |-> "node", shape |-> sh, label |-> l]
     : sh \in ShapeKind, l \in Texts(MaxLabelLen)}

EdgeItems ==
  {[phase |-> "host", kind |-> "edge", style |-> st, source |-> a, target |-> b]
     : st \in EdgeStyle, a \in EndpointIds, b \in EndpointIds}


SerializeNode ==
  /\ rt.phase = "host" /\ rt.kind = "node"
  /\ rt' = [phase |-> "text", kind |-> "node", shape |-> rt.shape, label |-> rt.label,
            line |-> NodeLine(BaseId(rt.label, "u1"), rt.shape, rt.label)]
  /\ UNCHANGED <<importVars, idp, ex, cl, nz, ly, sz, ci, br, sv>>

ClassifyNode ==
  /\ rt.phase = "text" /\ rt.kind = "node"
  /\ rt' = [phase |-> "read", kind |-> "node", shape |-> rt.shape, label |-> rt.label,
            line |-> rt.line, token |-> parseNodeToken(rt.line)]
  /\ UNCHANGED <<importVars, idp, ex, cl, nz, ly, sz, ci, br, sv>>

ExportEdge ==
  /\ rt.phase = "host" /\ rt.kind = "edge"
  /\ rt' = [phase |-> "text", kind |-> "edge", style |-> rt.style,
            source |-> rt.source, target |-> rt.target,
            line |-> EdgeLine(rt.source, rt.target, rt.style)]
  /\ UNCHANGED <<importVars, idp, ex, cl, nz, ly, sz, ci, br, sv>>

ReimportEdge ==
  /\ rt.phase = "text" /\ rt.kind = "edge"
  /\ rt' = [phase |-> "read", kind |-> "edge", style |-> rt.style,
            source |-> rt.source, target |-> rt.target,
            line |-> rt.line, edge |-> parseEdgeLine(rt.line)]
  /\ UNCHANGED <<importVars, idp, ex, cl, nz, ly, sz, ci, br, sv>>

RoundTripNext == SerializeNode \/ ClassifyNode \/ ExportEdge \/ ReimportEdge

\* ================================================ export: node identifiers

\* Most nodes that one export call names.
MaxNodes == 3

\* The texts of the exported nodes: equal texts, a text that looks like a
\* suffixed identifier, texts made equal by the digit prefix, an empty text,
\* a text with a blank around it, a text that looks like a generated one.
IdTexts ==
  {<<"A">>, <<"A", "_", "2">>, <<"1">>, <<"_", "1">>, <<>>, <<" ", "A">>,
   <<"node_", "u1">>}

\* The first eight characters of a node's uuid (two nodes may share them).
UuidPrefixes == {"u1", "u2"}

Numeral(n) == <<"0", "1", "2", "3", "4", "5", "6", "7", "8", "9">>[n + 1]

\* UniqueId that adds the suffix _2 once and does not look again.
UniqueIdSuffixedOnce(baseId, usedIds, n) ==
  IF baseId \in usedIds THEN baseId \o <<"_", Numeral(2)>> ELSE baseId

\* The identifier given to a node: its base identifier, or that with the
\* first of the suffixes _2, _3, ... that no identifier of this call has yet.
RECURSIVE UniqueId(_, _, _)
UniqueId(baseId, usedIds, n) ==
  LET candidate == IF n = 1 THEN baseId ELSE baseId \o <<"_", Numeral(n)>> IN
  IF candidate \in usedIds THEN UniqueId(baseId, usedIds, n + 1) ELSE candidate

IdIdle == [phase |-> "idle"]

IdNodes ==
  UNION {[1..k -> [text : IdTexts, uuid : UuidPrefixes]] : k \in 1..MaxNodes}

\* The next node of the call gets its identifier.
SynthesizeId ==
  /\ idp.phase = "naming"
  /\ Len(idp.nodeIds) < Len(idp.nodes)
  /\ LET node == idp.nodes[Len(idp.nodeIds) + 1]
         nodeId == UniqueId(BaseId(node.text, node.uuid), Range(idp.nodeIds), 1)
     IN idp' = [idp EXCEPT !.nodeIds = Append(@, nodeId)]
  /\ UNCHANGED <<importVars, rt, ex, cl, nz, ly, sz, ci, br, sv>>

IdsNext == SynthesizeId

\* ======================================== export: grouping and emission

\* The host document: two text nodes and three sections.
TextNodes == {"n1", "n2"}
Sections == {"s1", "s2", "s3"}
Entities == TextNodes \cup Sections

\* The two orders in which the selection is handed to export.
Forward == <<"n1", "n2", "s1", "s2", "s3">>
Backward == <<"s3", "s2", "s1", "n2", "n1">>

RECURSIVE AncestorsIn(_, _, _)
AncestorsIn(parent, e, n) ==
  IF n = 0 \/ parent[e] = "root" THEN {}
  ELSE {parent[e]} \cup AncestorsIn(parent, parent[e], n - 1)

\* Membership of the host document: every entity lies in one section or in
\* none, and no section lies in itself.
Memberships ==
  {p \in [Entities -> Sections \cup {"root"}] :
     \A e \in Entities : e \notin AncestorsIn(p, e, Cardinality(Sections) + 1)}

\* sectionMethods.isEntityInSection(entity, section): the entity lies in the
\* section, directly or through nested sections.
isEntityInSection(parent, entity, section) ==
  section \in AncestorsIn(parent, entity, Cardinality(Sections) + 1)

\* The innermost-section loop with its test the wrong way round.
RECURSIVE OutermostOf(_, _, _, _)
OutermostOf(parent, containingSections, k, innermostSection) ==
  IF k > Len(containingSections) THEN innermostSection
  ELSE OutermostOf(parent, containingSections, k + 1,
         IF isEntityInSection(parent, innermostSection, containingSections[k])
         THEN containingSections[k] ELSE innermostSection)

\* for (const section of containingSections)
\*   if (isEntityInSection(section, innermostSection)) innermostSection = section
RECURSIVE InnermostOf(_, _, _, _)
InnermostOf(parent, containingSections, k, innermostSection) ==
  IF k > Len(containingSections) THEN innermostSection
  ELSE InnermostOf(parent, containingSections, k + 1,
         IF isEntityInSection(parent, containingSections[k], innermostSection)
         THEN containingSections[k] ELSE innermostSection)

\* Where a selected entity is emitted: in the innermost of the selected
\* sections that contain it, at top level ("root") when none does.
GroupOf(parent, selected, e) ==
  LET Contains(s) == s \in Sections /\ isEntityInSection(parent, e, s)
      containingSections == SelectSeq(selected, Contains)
  IN IF containingSections = <<>> THEN "root"
     ELSE InnermostOf(parent, containingSections, 1, containingSections[1])

OutLine(kind, e, indent) == [kind |-> kind, entity |-> e, indent |-> indent]

\* The edges of the host document, in the order of its associations.
DocumentEdges ==
  << [source |-> "n1", target |-> "n2"], [source |-> "n2", target |-> "n1"],
     [source |-> "n2", target |-> "s1"], [source |-> "s2", target |-> "n1"] >>

\* The edge filter that asks for one selected endpoint only.
generateEdgesEitherEnd(documentEdges, selected) ==
  LET Valid(e) == e.source \in Range(selected) \/ e.target \in Range(selected)
      kept == SelectSeq(documentEdges, Valid)
  IN [k \in DOMAIN kept |->
        [kind |-> "edge", source |-> kept[k].source, target |-> kept[k].target]]

\* The edges written: those whose source and target are both among the
\* selected entities, in the order of the document.
generateEdges(documentEdges, selected) ==
  LET Valid(e) == e.source \in Range(selected) /\ e.target \in Range(selected)
      kept == SelectSeq(documentEdges, Valid)
  IN [k \in DOMAIN kept |->
        [kind |-> "edge", source |-> kept[k].source, target |-> kept[k].target]]

\* The texts of the entities when nothing is said about them.
DefaultTexts ==
  [e \in Entities |->
     CASE e = "n1" -> <<"a">> [] e = "n2" -> <<"b">> [] e = "s1" -> <<"S">>
       [] e = "s2" -> <<"T">> [] OTHER -> <<"U">>]

\* The identifiers of the first k selected entities, given in their order;
\* the name of an entity stands for the first characters of its uuid.
RECURSIVE IdSeq(_, _, _)
IdSeq(selected, texts, k) ==
  IF k = 0 THEN <<>>
  ELSE LET prev == IdSeq(selected, texts, k - 1)
       IN Append(prev, UniqueId(BaseId(texts[selected[k]], selected[k]),
                                Range(prev), 1))

\* selected entity -> its identifier
IdsOf(selected, texts) ==
  [e \in Range(selected) |->
     IdSeq(selected, texts, Len(selected))[CHOOSE k \in DOMAIN selected : selected[k] = e]]

\* A lookup in the identifier map; an entity without an identifier reads as
\* the text `undefined`.
IdOrUndefined(ids, e) == IF e \in DOMAIN ids THEN ids[e] ELSE <<"undefined">>

RECURSIVE Blanks(_)
Blanks(n) == IF n = 0 THEN <<>> ELSE <<" ", " ">> \o Blanks(n - 1)

\* The text of one written line:
\*   ${indent}subgraph ${sectionId}["${sectionTitle}"]
\*   ${indent}end
\*   ${indent}${nodeId}["${nodeText}"]
\*   ${sourceId} --> ${targetId}
RenderLine(l, ids, texts) ==
  CASE l.kind = "subgraph" ->
         Blanks(l.indent) \o <<"subgraph", " ">> \o ids[l.entity] \o <<"[", "\"">>
           \o EncodeMermaidText(texts[l.entity]) \o <<"\"", "]">>
    [] l.kind = "end" -> Blanks(l.indent) \o <<"end">>
    [] l.kind = "node" ->
         Blanks(l.indent) \o NodeLine(ids[l.entity], "rectangle", texts[l.entity])
    [] OTHER -> EdgeLine(IdOrUndefined(ids, l.source),
                         IdOrUndefined(ids, l.target), "solid")

RenderText(outLines, ids, texts) ==
  [k \in DOMAIN outLines |-> RenderLine(outLines[k], ids, texts)]

\* generateNodes(nodes, indent): a section is written as its subgraph line,
\* its own inner nodes one level deeper, and `end`; a text node as one line.
RECURSIVE generateNodes(_, _, _, _)
generateNodes(groups, nodes, k, indent) ==
  IF k > Len(nodes) THEN <<>>
  ELSE LET node == nodes[k]
           here == IF node \in Sections
                   THEN <<OutLine("subgraph", node, indent)>>
                        \o generateNodes(groups, groups[node], 1, indent + 1)
                        \o <<OutLine("end", node, indent)>>
                   ELSE <<OutLine("node", node, indent)>>
       IN here \o generateNodes(groups, nodes, k + 1, indent)

ExIdle == [phase |-> "idle"]

Selections ==
  {SelectSeq(order, LAMBDA e : e \in chosen)
     : order \in {Forward, Backward}, chosen \in SUBSET Entities}

NoGroups == [g \in Sections \cup {"root"} |-> <<>>]

\* One export call: the membership of the document, the selection in the
\* order handed over, the texts of the entities.
ExportInput(p, sel, texts) ==
  [phase |-> "grouping", parent |-> p, selected |-> sel, next |-> 1,
   groups |-> NoGroups, edges |-> DocumentEdges, texts |-> texts,
   out |-> <<>>, edgeLines |-> <<>>, text |-> <<>>, reimport |-> EmptyBuilder]

\* The next selected entity is put under its innermost selected section.
GroupEntity ==
  /\ ex.phase = "grouping"
  /\ ex.next <= Len(ex.selected)
  /\ LET e == ex.selected[ex.next]
         g == GroupOf(ex.parent, ex.selected, e)
     IN ex' = [ex EXCEPT !.groups[g] = Append(@, e), !.next = @ + 1]
  /\ UNCHANGED <<importVars, rt, idp, cl, nz, ly, sz, ci, br, sv>>

\* The text is generated from the top-level entities down.
GenerateText ==
  /\ ex.phase = "grouping"
  /\ ex.next > Len(ex.selected)
  /\ LET out == generateNodes(ex.groups, ex.groups["root"], 1, 0)
         edgeLines == generateEdges(ex.edges, ex.selected)
     IN ex' = [ex EXCEPT !.phase = "written",
                         !.out = out,
                         !.edgeLines = edgeLines,
                         !.text = RenderText(out \o edgeLines,
                                             IdsOf(ex.selected, ex.texts), ex.texts)]
  /\ UNCHANGED <<importVars, rt, idp, cl, nz, ly, sz, ci, br, sv>>

ExportNext == GroupEntity \/ GenerateText

\* ===================================================== the token classifier

\* Most identifiers that one side of an edge statement joins with `&`.
MaxFan == 2

\* The identifiers written in the classified lines.
ClassIds == {"A", "B", "C"}

\* One side of an edge statement: distinct identifiers, in written order.
IdLists ==
  UNION {{s \in [1..k -> ClassIds] : \A i, j \in 1..k : i /= j => s[i] /= s[j]}
           : k \in 1..MaxFan}

RECURSIVE JoinIds(_)
JoinIds(ids) ==
  IF Len(ids) = 1 THEN <<ids[1]>>
  ELSE <<ids[1], " ", "&", " ">> \o JoinIds(Tail(ids))

\* The five edge operators of the grammar, as they are written.
OperatorText(style) ==
  CASE style = "thick" -> <<"=", "=", ">">>
    [] style = "dashed" -> <<"-", ".", "-", ">">>
    [] style = "undirected" -> <<"-", "-", "-">>
    [] style = "bidirectional" -> <<"<", "-", "-", ">">>
    [] OTHER -> <<"-", "-", ">">>

\* What precedes a quoted infix label: A -- "x" --> B, A == "x" ==> B, ...
InfixOpen(style) ==
  CASE style = "thick" -> <<"=", "=">>
    [] style = "dashed" -> <<"-", ".">>
    [] style = "bidirectional" -> <<"<", "-", "-">>
    [] OTHER -> <<"-", "-">>

LabelForms == {"none", "pipe", "infix"}

\* The label of the written edge statements that carry one.
EdgeLabel == <<"x">>

\* An edge statement as text.
EdgeStatement(lefts, rights, style, form) ==
  JoinIds(lefts)
    \o (IF form = "infix"
        THEN <<" ">> \o InfixOpen(style) \o <<" ", "\"">> \o EdgeLabel \o <<"\"">>
        ELSE <<>>)
    \o <<" ">> \o OperatorText(style)
    \o (IF form = "pipe" THEN <<"|">> \o EdgeLabel \o <<"|">> ELSE <<>>)
    \o <<" ">> \o JoinIds(rights)

WrittenEdges ==
  {[form |-> "edge", lefts |-> ls, rights |-> rs, style |-> st, labelForm |-> f,
    line |-> EdgeStatement(ls, rs, st, f)]
     : ls \in IdLists, rs \in IdLists, st \in EdgeStyle, f \in LabelForms}

\* The labels written between the delimiters of a node token.
WrittenLabels ==
  {<<"x">>, <<>>, <<"(", "x", ")">>, <<"\"", "x", "\"">>, <<"[", "x", "]">>}

WrittenNodes ==
  {[form |-> "node", id |-> <<i>>, pattern |-> p, label |-> l,
    line |-> <<i>> \o ShapePatterns[p].open \o l \o ShapePatterns[p].close]
     : i \in ClassIds, p \in DOMAIN ShapePatterns, l \in WrittenLabels}

\* Lines that begin with a keyword, some of them edge statements or node
\* tokens as well; "graph", "flowchart", "subgraph" and "end" stand for the
\* keywords, "TD", "LR" and "XX" for the direction written after them.
KeywordLines ==
  {<<"graph", " ", "TD">>, <<"graph", " ", "LR">>, <<"graph", " ", "XX">>,
   <<"flowchart", " ", "LR">>, <<"graph">>,
   <<"graph", " ", "XX", " ", "-", "-", ">", " ", "A">>,
   <<"subgraph", " ", "S">>,
   <<"subgraph", " ", "S", "[", "\"", "x", "\"", "]">>,
   <<"subgraph", " ", "A", " ", "-", "-", ">", " ", "B">>,
   <<"end">>,
   <<"end", " ", "-", "-", ">", " ", "A">>,
   <<"end", "[", "x", "]">>,
   <<"A">>}

WrittenKeywordLines == {[form |-> "keyword", line |-> t] : t \in KeywordLines}

\* graph <DIR> / flowchart <DIR>
IsDirectionLine(t) ==
  t /= <<>> /\ t[1] \in {"graph", "flowchart"} /\ (Len(t) = 1 \/ t[2] = " ")

\* The direction written on a direction line, "" when there is none.
DirectionOf(t) == IF Len(t) >= 3 THEN t[3] ELSE ""

\* subgraph <name-or-label>
IsContainerOpen(t) ==
  t /= <<>> /\ t[1] = "subgraph" /\ (Len(t) = 1 \/ t[2] = " ")

\* the close keyword, alone on its line
IsContainerClose(t) == t = <<"end">>

\* line.indexOf("-->") !== -1
IsEdgeStatement(t) == IndexOf(t, <<"-", "-", ">">>) /= 0

\* A -- "label" --> B: the quoted label that ends the left part, and what
\* is left of the `--` in front of it.
infixLabel(leftPart) ==
  LET k == IndexOf(leftPart, <<"-", "-">>)
      quoted == Trim(SubSeq(leftPart, k + 2, Len(leftPart)))
  IN IF k > 0 /\ Len(quoted) >= 2 /\ quoted[1] = "\"" /\ quoted[Len(quoted)] = "\""
     THEN [source |-> Trim(SubSeq(leftPart, 1, k - 1)),
           label |-> SubSeq(quoted, 2, Len(quoted) - 1)]
     ELSE [source |-> leftPart, label |-> <<>>]

\* The edges of an edge statement: one, from the node token left of the
\* first `-->` to the node token right of it.
parseEdgeStatement(t) ==
  LET arrowIndex == IndexOf(t, <<"-", "-", ">">>)
      leftPart == Trim(SubSeq(t, 1, arrowIndex - 1))
      rightPart == Trim(SubSeq(t, arrowIndex + 3, Len(t)))
      left == infixLabel(leftPart)
  IN << [source |-> parseNodeToken(left.source).id,
         target |-> parseNodeToken(rightPart).id,
         style |-> "solid",
         label |-> left.label] >>

\* The same loop with the edge test in front of the keyword tests.
classifyLineEdgeFirst(t) ==
  IF IsEdgeStatement(t)
  THEN [kind |-> "edge", edges |-> parseEdgeStatement(t)]
  ELSE IF IsDirectionLine(t)
  THEN [kind |-> "direction",
        hint |-> SetDirection(EmptyBuilder, DirectionOf(t)).direction]
  ELSE IF IsContainerOpen(t)
  THEN [kind |-> "open", token |-> parseNodeToken(SubSeq(t, 3, Len(t)))]
  ELSE IF IsContainerClose(t)
  THEN [kind |-> "close"]
  ELSE [kind |-> "node", token |-> parseNodeToken(t)]

\* One round of the line loop: the first test that succeeds decides.
classifyLine(t) ==
  IF IsDirectionLine(t)
  THEN [kind |-> "direction",
        hint |-> SetDirection(EmptyBuilder, DirectionOf(t)).direction]
  ELSE IF IsContainerOpen(t)
  THEN [kind |-> "open", token |-> parseNodeToken(SubSeq(t, 3, Len(t)))]
  ELSE IF IsContainerClose(t)
  THEN [kind |-> "close"]
  ELSE IF IsEdgeStatement(t)
  THEN [kind |-> "edge", edges |-> parseEdgeStatement(t)]
  ELSE [kind |-> "node", token |-> parseNodeToken(t)]

ClIdle == [phase |-> "idle"]

ClassifyInputs ==
  {[phase |-> "line", written |-> w, line |-> w.line]
     : w \in WrittenEdges \cup WrittenNodes \cup WrittenKeywordLines}

\* The line is classified.
ClassifyLine ==
  /\ cl.phase = "line"
  /\ cl' = [phase |-> "classified", written |-> cl.written, line |-> cl.line,
            result |-> classifyLine(cl.line)]
  /\ UNCHANGED <<importVars, rt, idp, ex, nz, ly, sz, ci, br, sv>>

ClassifyNext == ClassifyLine

\* ================================================== the lexical normalizer

\* Most lines of raw text that one run of the normalizer is given.
MaxRawLines == 2

\* Raw lines; "%%" stands for the comment marker, "style", "STYLE",
\* "linkStyle", "linkstyle", "classDef" for these words, "a" for other text.
RawLines ==
  {<<>>, <<" ">>, <<"a">>, <<" ", "a", " ">>,
   <<"%%", " ", "a">>, <<" ", "%%", "a">>, <<"a", " ", "%%">>,
   <<"style", " ", "a">>, <<" ", "style", " ", "a">>, <<" ", "style", " ">>,
   <<"style", "a">>, <<"STYLE", " ", "a">>,
   <<"linkStyle", " ", "a">>, <<"linkstyle", " ", "a">>,
   <<"classDef", " ", "a">>, <<"a", " ", "style", " ", "a">>}

RawTexts == UNION {[1..k -> RawLines] : k \in 0..MaxRawLines}

\* line.toLowerCase()
toLowerCase(line) ==
  [k \in DOMAIN line |->
     CASE line[k] = "STYLE" -> "style"
       [] line[k] = "linkStyle" -> "linkstyle"
       [] line[k] = "classDef" -> "classdef"
       [] OTHER -> line[k]]

\* The filter without the conversion to lower case.
keepLineAsWritten(line) ==
  /\ line /= <<>>
  /\ ~StartsWith(line, <<"%%">>)
  /\ ~StartsWith(line, <<"style", " ">>)
  /\ ~StartsWith(line, <<"linkstyle", " ">>)
  /\ ~StartsWith(line, <<"classdef", " ">>)

\* The filter over the trimmed lines: not empty, not a comment, and
\*   !line.toLowerCase().startsWith("style ") &&
\*   !line.toLowerCase().startsWith("linkstyle ") &&
\*   !line.toLowerCase().startsWith("classdef ")
keepLine(line) ==
  /\ line /= <<>>
  /\ ~StartsWith(line, <<"%%">>)
  /\ ~StartsWith(toLowerCase(line), <<"style", " ">>)
  /\ ~StartsWith(toLowerCase(line), <<"linkstyle", " ">>)
  /\ ~StartsWith(toLowerCase(line), <<"classdef", " ">>)

\* The normalized lines of a text, given as its raw lines.
normalizeText(text) ==
  SelectSeq([k \in DOMAIN text |-> Trim(text[k])], keepLine)

NzIdle == [phase |-> "idle"]

NormalizeInputs ==
  {[phase |-> "raw", raw |-> t, out |-> <<>>, again |-> <<>>, diagnostics |-> <<>>]
     : t \in RawTexts}

\* The raw text is normalized.
Normalize ==
  /\ nz.phase = "raw"
  /\ nz' = [nz EXCEPT !.phase = "normalized", !.out = normalizeText(nz.raw)]
  /\ UNCHANGED <<importVars, rt, idp, ex, cl, ly, sz, ci, br, sv>>

\* The normalized lines are normalized once more.
NormalizeAgain ==
  /\ nz.phase = "normalized"
  /\ nz' = [nz EXCEPT !.phase = "renormalized", !.again = normalizeText(nz.out)]
  /\ UNCHANGED <<importVars, rt, idp, ex, cl, ly, sz, ci, br, sv>>

NormalizeNext == Normalize \/ NormalizeAgain

\* ============================================ export: the text read back

\* The identifier and the label of a token as the builder takes them: the
\* identifier as one string ("" when it is empty), the label as "" when it
\* is empty, "section" when it holds a container word and "x" otherwise.
IdName(t) == IF t = <<>> THEN "" ELSE ToString(t)

LabelName(t) ==
  IF t = <<>> THEN "" ELSE IF "section" \in Range(t) THEN "section" ELSE "x"

\* The event that a classified line is for the builder.
ToImportLine(c) ==
  CASE c.kind = "direction" -> MkLine("direction", c.hint, "", "", "")
    [] c.kind = "open" ->
         MkLine("open", IdName(c.token.id), LabelName(c.token.label), "", "")
    [] c.kind = "close" -> CloseLine
    [] c.kind = "edge" ->
         MkLine("edge", "", "", IdName(c.edges[1].source), IdName(c.edges[1].target))
    [] OTHER -> MkLine("node", IdName(c.token.id), LabelName(c.token.label), "", "")

\* One import of a text: its lines are normalized, classified and handed to
\* the builder one by one, and the pass is ended.
importText(text) ==
  LET normalized == normalizeText(text)
      ls == [k \in DOMAIN normalized |-> ToImportLine(classifyLine(normalized[k]))]
      b == Replay(ls, Len(ls))
  IN IF b.pc = "read" THEN EndPass(b, Len(ls) + 1) ELSE b

WithText(e, t) == [DefaultTexts EXCEPT ![e] = t]

\* The texts of the exported entities: all different; two nodes, or a node
\* and a section, with the same text; an empty text; a digit; a double
\* quote; a container word; a text that holds an arrow; a text that starts
\* with a keyword.
TextAssignments ==
  {DefaultTexts, WithText("n2", <<"a">>), WithText("s1", <<"a">>),
   WithText("n1", <<>>), WithText("n1", <<"1">>), WithText("n1", <<"\"">>),
   WithText("n2", <<"section">>),
   WithText("n1", <<"a", "-", "-", ">", "b">>),
   WithText("n1", <<"subgraph", " ", "x">>)}

\* The written text is imported.
ReimportText ==
  /\ ex.phase = "written"
  /\ ex' = [ex EXCEPT !.phase = "reimported", !.reimport = importText(ex.text)]
  /\ UNCHANGED <<importVars, rt, idp, cl, nz, ly, sz, ci, br, sv>>

ExportTextNext == GroupEntity \/ GenerateText \/ ReimportText

\* ============================================================== the layout

\* Most entities in one batch handed to the layout, and most edges among them.
MaxEntities == 4
MaxEdges == 4

\* layoutGroup(rootEntities, diffLocation, new Vector(260, 200))
SpacingX == 260
SpacingY == 200

Spacing == [x |-> SpacingX, y |-> SpacingY]

\* Where the import is dropped (diffLocation).
Origins == {[x |-> 0, y |-> 0], [x |-> 100, y |-> 40]}

\* The entities of a batch are numbered in the order of their declaration.
\* The edges of a batch: at most MaxEdges, each between two entities declared
\* one or two apart, in either direction.
BatchEdges(n) ==
  {es \in SUBSET {<<u, v>> \in (1..n) \X (1..n) : u /= v /\ u - v \in {-2, -1, 1, 2}} :
     Cardinality(es) <= MaxEdges}

\* The batch as the host hands it over in one import: the entities in
\* declaration order, each with the uuid the host gave it in that import
\* (rising with the declaration order in one import, falling in another).
BatchOf(n, uuids) ==
  [k \in 1..n |-> [id |-> k, uuid |-> IF uuids = "rising" THEN k ELSE n + 1 - k]]

RECURSIVE CeilSqrtFrom(_, _)
CeilSqrtFrom(n, c) == IF c * c >= n THEN c ELSE CeilSqrtFrom(n, c + 1)

\* A single column whatever the number of entities.
columnsAlwaysOne(n) == 1

\* The square root rounded down instead of up.
RECURSIVE FloorSqrtFrom(_, _)
FloorSqrtFrom(n, c) == IF (c + 1) * (c + 1) > n THEN c ELSE FloorSqrtFrom(n, c + 1)

columnsFloorSqrt(n) == IF FloorSqrtFrom(n, 0) > 1 THEN FloorSqrtFrom(n, 0) ELSE 1

\* Math.max(1, Math.ceil(Math.sqrt(entities.length)))
columnsOf(n) == IF CeilSqrtFrom(n, 0) > 1 THEN CeilSqrtFrom(n, 0) ELSE 1

\* The grid filled in the order of the uuids instead of the declarations.
layoutGroupByUuid(batch, origin, spacing) ==
  LET columns == columnsOf(Len(batch))
      Rank(k) == Cardinality({j \in DOMAIN batch : batch[j].uuid < batch[k].uuid})
  IN [e \in {batch[k].id : k \in DOMAIN batch} |->
        LET k == CHOOSE j \in DOMAIN batch : batch[j].id = e IN
        [x |-> origin.x + (Rank(k) % columns) * spacing.x,
         y |-> origin.y + (Rank(k) \div columns) * spacing.y]]

\* layoutGroup(entities, origin, spacing): the entities are put on a grid in
\* the order given, row after row; the edges and the direction are not looked
\* at.  target = origin.add(new Vector(col * spacing.x, row * spacing.y))
layoutGroup(batch, origin, spacing) ==
  LET columns == columnsOf(Len(batch))
  IN [e \in {batch[k].id : k \in DOMAIN batch} |->
        LET k == CHOOSE j \in DOMAIN batch : batch[j].id = e
            col == (k - 1) % columns
            row == (k - 1) \div columns
        IN [x |-> origin.x + col * spacing.x, y |-> origin.y + row * spacing.y]]

LyIdle == [phase |-> "idle"]

NotPlaced == [placed |-> FALSE, position |-> <<>>]

\* Two imports of the same text at the same place, each with its own uuids.
LayoutInput(n, es, o, d, u) ==
  [phase |-> "built", n |-> n, edges |-> es, origin |-> o, direction |-> d,
   uuids |-> <<"rising", u>>, runs |-> <<NotPlaced, NotPlaced>>]

\* One of the two imports lays out its batch.
LayoutBatch ==
  /\ ly.phase = "built"
  /\ \E r \in DOMAIN ly.runs :
       /\ ~ly.runs[r].placed
       /\ ly' = [ly EXCEPT !.runs[r] =
                   [placed |-> TRUE,
                    position |-> layoutGroup(BatchOf(ly.n, ly.uuids[r]),
                                             ly.origin, Spacing)]]
  /\ UNCHANGED <<importVars, rt, idp, ex, cl, nz, sz, ci, br, sv>>

LayoutNext == LayoutBatch

\* ============================================ the sizing of the containers

\* The rectangle of an entity as the layout places it, and the margin a
\* container keeps around its children.
NodeSize == [x |-> 100, y |-> 60]
Padding == 30

Rect(pos, size) ==
  [x1 |-> pos.x, y1 |-> pos.y, x2 |-> pos.x + size.x, y2 |-> pos.y + size.y]

Least(S) == CHOOSE m \in S : \A o \in S : m <= o

Greatest(S) == CHOOSE m \in S : \A o \in S : m >= o

BoundingBox(rs) ==
  [x1 |-> Least({r.x1 : r \in rs}), y1 |-> Least({r.y1 : r \in rs}),
   x2 |-> Greatest({r.x2 : r \in rs}), y2 |-> Greatest({r.y2 : r \in rs})]

Expand(r, p) == [x1 |-> r.x1 - p, y1 |-> r.y1 - p, x2 |-> r.x2 + p, y2 |-> r.y2 + p]

\* The lines of an import that build containers and nodes.
SizingLines == OpenLines \cup {CloseLine} \cup NodeLines

\* The entities that have children.
ContainersOf(children) == {c \in DOMAIN children : children[c] /= <<>>}

\* S and everything below S.
RECURSIVE Below(_, _, _)
Below(children, S, n) ==
  IF n = 0 THEN S
  ELSE Below(children, S \cup UNION {Range(children[c]) : c \in S}, n - 1)

\* The rectangle of container c: the bounding box of the rectangles of its
\* children, expanded by the padding.
adjustSection(children, rect, c) ==
  Expand(BoundingBox({rect[d] : d \in Range(children[c])}), Padding)

\* Outermost first: a container is sized once the containers it lies in are.
NextToSizeOutermostFirst(children, sized) ==
  {c \in ContainersOf(children) \ sized :
     \A p \in ContainersOf(children) \ {c} : c \in Range(children[p]) => p \in sized}

\* Post-order over the containment: a container is sized once the containers
\* among its children are; a child that leads back to the container itself
\* is already being visited and is not waited for.
NextToSize(children, sized) ==
  {c \in ContainersOf(children) \ sized :
     \A d \in Range(children[c]) \cap ContainersOf(children) :
       d \in sized \/ c \in Below(children, {d}, Len(children))}

SzIdle == [phase |-> "idle"]

\* What one import built, handed to the layout at the end of its pass.
SizingInput(ls, o) ==
  LET b == EndPass(Replay(ls, Len(ls)), Len(ls) + 1)
  IN [phase |-> "built", children |-> b.sectionChildrenMap, origin |-> o,
      rect |-> <<>>, sized |-> <<>>]

\* The layout places every new entity.
PlaceEntities ==
  /\ sz.phase = "built"
  /\ LET n == Len(sz.children)
         position == layoutGroup(BatchOf(n, "rising"), sz.origin, Spacing)
     IN sz' = [sz EXCEPT !.phase = "placed",
                         !.rect = [e \in 1..n |-> Rect(position[e], NodeSize)]]
  /\ UNCHANGED <<importVars, rt, idp, ex, cl, nz, ly, ci, br, sv>>

\* One container is sized around its children.
SizeSection ==
  /\ sz.phase = "placed"
  /\ \E c \in NextToSize(sz.children, Range(sz.sized)) :
       sz' = [sz EXCEPT !.rect[c] = adjustSection(sz.children, sz.rect, c),
                        !.sized = Append(@, c)]
  /\ UNCHANGED <<importVars, rt, idp, ex, cl, nz, ly, ci, br, sv>>

SizingNext == PlaceEntities \/ SizeSection

\* ===================================================== two imports at once

\* Most lines that each of the two imports reads.
MaxConcurrentLines == 2

\* The lines the two imports read.
ConcurrentLines ==
  {MkLine("open", "S", "S", "", ""), CloseLine,
   MkLine("node", "A", "x", "", ""), MkLine("node", "B", "x", "", ""),
   MkLine("edge", "", "", "A", "B"), UnrecognizedLine}

CiIdle == [phase |-> "idle"]

\* Two imports, each into a document of its own and with an identifier
\* table, a container stack and a queue of its own.
TwoImports ==
  [phase |-> "running",
   runs |-> [i \in {1, 2} |-> [lines |-> <<>>, b |-> EmptyBuilder]]]

\* One identifier table for the whole process: an import resolves the
\* identifiers that the other import has registered, too.
importLineSharedTable(runs, i, l) ==
  LET other == runs[3 - i].b.entityMap
      own == runs[i].b.entityMap
      shared == [x \in DOMAIN own \cup DOMAIN other |->
                   IF x \in DOMAIN own THEN own[x] ELSE other[x]]
      b == [runs[i].b EXCEPT !.entityMap = shared]
  IN [runs EXCEPT ![i] = [lines |-> Append(@.lines, l),
                          b |-> HandleLine(b, l, Len(@.lines) + 1)]]

\* Import i reads its next line: only its own state is read and written.
importLine(runs, i, l) ==
  [runs EXCEPT ![i] = [lines |-> Append(@.lines, l),
                       b |-> HandleLine(@.b, l, Len(@.lines) + 1)]]

\* One of the imports reads one line.
ReadLineOf ==
  /\ ci.phase = "running"
  /\ \E i \in {1, 2}, l \in ConcurrentLines :
       /\ ci.runs[i].b.pc = "read"
       /\ Len(ci.runs[i].lines) < MaxConcurrentLines
       /\ ci' = [ci EXCEPT !.runs = importLine(@, i, l)]
  /\ UNCHANGED <<importVars, rt, idp, ex, cl, nz, ly, sz, br, sv>>

\* One of the imports reaches the end of its text.
EndPassOf ==
  /\ ci.phase = "running"
  /\ \E i \in {1, 2} :
       /\ ci.runs[i].b.pc = "read"
       /\ ci' = [ci EXCEPT !.runs[i].b = EndPass(@, Len(ci.runs[i].lines) + 1)]
  /\ UNCHANGED <<importVars, rt, idp, ex, cl, nz, ly, sz, br, sv>>

ConcurrentNext == ReadLineOf \/ EndPassOf

\* ========================================================= the HTTP bridge

\* Most HTTP requests that the bridge receives, the number of checks for the
\* response file that fit into the wait (maxWait / 50 in the code), and the
\* most poll cycles of the application that find one request file.
MaxRequests == 2
MaxPolls == 2
MaxDispatches == 2

BrIdle == [phase |-> "idle"]

RequestIds == 1..MaxRequests

\* JSON.parse on the bodies that the clients send.
JSONparse(bodyStr) ==
  CASE bodyStr = "{\"text\":\"a\",\"x\":0,\"y\":0}"
         -> [ok |-> TRUE, value |-> [text |-> "a", x |-> 0, y |-> 0]]
    [] bodyStr = "{}" -> [ok |-> TRUE, value |-> EmptyMap]
    [] OTHER -> [ok |-> FALSE, value |-> EmptyMap]

\* The requests of the clients: method, path and the text of the body.
ClientRequests ==
  {[method |-> "GET", path |-> <<"mcp", "resources">>, bodyStr |-> ""],
   [method |-> "POST", path |-> <<"__mcp", "tools", "addNode">>,
    bodyStr |-> "{\"text\":\"a\",\"x\":0,\"y\":0}"],
   [method |-> "POST", path |-> <<"mcp", "tools", "addNode">>, bodyStr |-> "{text"],
   [method |-> "OPTIONS", path |-> <<"mcp", "tools">>, bodyStr |-> ""]}

\* A request of a client: what the bridge sent for it (sent, and whether that
\* was read from a response file), and what the application did with its
\* request file (dispatched, and the answers that it wrote).
NoRequest ==
  [state |-> "none", request |-> EmptyMap, elapsed |-> 0, sent |-> <<>>,
   relayed |-> FALSE, dispatched |-> 0, written |-> <<>>]

\* The bridge with its two directories, before any request, and the project
\* that the application has open.
BridgeStarted ==
  [phase |-> "bridge", slots |-> [i \in RequestIds |-> NoRequest],
   requests |-> {}, responses |-> {},
   project |-> [entities |-> <<>>, edges |-> <<>>, tags |-> <<>>, nextUuid |-> 1]]

TimeoutError ==
  "Request timeout. Make sure Project Graph application is running and processing MCP requests."

\* The value undefined of a field that an object does not have, as a record,
\* so that it compares with the JSON values of the bodies.
Undefined == [undefined |-> TRUE]

\* What res.end(JSON.stringify(result.data)) is given for a result.
DataOf(result) == IF "data" \in DOMAIN result THEN result.data ELSE Undefined

Send(slot, status, body) ==
  [slot EXCEPT !.state = "done", !.sent = Append(@, [status |-> status, body |-> body])]

\* handleRequest up to the first wait of sendToApp: the preflight is answered
\* with 204, a POST body that does not parse with 400, and any other request
\* is written into the requests directory.
ReceiveRequest ==
  /\ br.phase = "bridge"
  /\ \E i \in RequestIds, req \in ClientRequests :
       /\ br.slots[i].state = "none"
       /\ \A j \in 1..(i - 1) : br.slots[j].state /= "none"
       /\ LET parsed == JSONparse(req.bodyStr)
              arrived == [br.slots[i] EXCEPT !.request = req]
              body == IF req.method = "POST" THEN parsed.value ELSE "null"
          IN IF req.method = "OPTIONS"
             THEN br' = [br EXCEPT !.slots[i] = Send(arrived, 204, "")]
             ELSE IF req.method = "POST" /\ ~parsed.ok
             THEN br' = [br EXCEPT !.slots[i] =
                           Send(arrived, 400, [error |-> "Invalid JSON body"])]
             ELSE br' = [br EXCEPT
                           !.slots[i] = [arrived EXCEPT !.state = "waiting"],
                           !.requests = @ \cup {[requestId |-> i, method |-> req.method,
                                                 path |-> req.path, body |-> body]}]
  /\ UNCHANGED <<importVars, rt, idp, ex, cl, nz, ly, sz, ci, sv>>

\* One turn of the loop of sendToApp while less than maxWait has passed: a
\* response file that is there is read, both files are removed and the answer
\* is sent; else the bridge sleeps for 50 ms.
CheckResponse ==
  /\ br.phase = "bridge"
  /\ \E i \in RequestIds :
       /\ br.slots[i].state = "waiting"
       /\ br.slots[i].elapsed < MaxPolls
       /\ LET found == {f \in br.responses : f.requestId = i}
          IN IF found /= {}
             THEN LET response == CHOOSE f \in found : TRUE
                  IN br' = [br EXCEPT
                              !.slots[i] = [Send(@, response.status, DataOf(response))
                                              EXCEPT !.relayed = TRUE],
                              !.requests = {f \in @ : f.requestId /= i},
                              !.responses = {f \in @ : f.requestId /= i}]
             ELSE br' = [br EXCEPT !.slots[i].elapsed = @ + 1]
  /\ UNCHANGED <<importVars, rt, idp, ex, cl, nz, ly, sz, ci, sv>>

\* The end of sendToApp after maxWait: the request file is removed and the
\* answer is 503.
GiveUp ==
  /\ br.phase = "bridge"
  /\ \E i \in RequestIds :
       /\ br.slots[i].state = "waiting"
       /\ br.slots[i].elapsed >= MaxPolls
       /\ br' = [br EXCEPT
                   !.slots[i] = Send(@, 503, [error |-> TimeoutError]),
                   !.requests = {f \in @ : f.requestId /= i}]
  /\ UNCHANGED <<importVars, rt, idp, ex, cl, nz, ly, sz, ci, sv>>

\* ========================================================== the MCP server

\* The highest uuid that a stage object (node, section, edge) is given.
MaxObjects == 4

DEFAULT_NODE_WIDTH == 200
DEFAULT_NODE_HEIGHT == 100

\* The uuids of stage objects; NoUuid is never given to an object.
Uuids == 1..MaxObjects
NoUuid == MaxObjects + 1

CenterRate == [x |-> 50, y |-> 50]

TextNodeOf(uuid, text, x, y, width, height) ==
  [uuid |-> uuid, kind |-> "TextNode", text |-> text,
   x |-> x, y |-> y, width |-> width, height |-> height]

SectionOf(uuid) ==
  [uuid |-> uuid, kind |-> "Section", text |-> "s",
   x |-> 0, y |-> 0, width |-> DEFAULT_NODE_WIDTH, height |-> DEFAULT_NODE_HEIGHT]

EdgeOf(uuid, source, target) ==
  [uuid |-> uuid, source |-> source, target |-> target,
   sourceRectangleRate |-> CenterRate, targetRectangleRate |-> CenterRate]

\* The projects a server is constructed with.
StartProjects ==
  {[entities |-> <<TextNodeOf(1, "a", 0, 0, DEFAULT_NODE_WIDTH, DEFAULT_NODE_HEIGHT),
                   SectionOf(3)>>,
    edges |-> <<>>, tags |-> <<"t">>, nextUuid |-> 4],
   [entities |-> <<TextNodeOf(1, "a", 0, 0, DEFAULT_NODE_WIDTH, DEFAULT_NODE_HEIGHT),
                   TextNodeOf(2, "b", 0, 0, DEFAULT_NODE_WIDTH, DEFAULT_NODE_HEIGHT)>>,
    edges |-> <<EdgeOf(3, 2, 1)>>, tags |-> <<>>, nextUuid |-> 4]}

\* ---- the stage manager (host)

EntityIds(p) == {p.entities[k].uuid : k \in DOMAIN p.entities}

EdgeIds(p) == {p.edges[k].uuid : k \in DOMAIN p.edges}

\* stageManager.get(id) finds an object: an entity or an edge.
Has(p, id) == id \in EntityIds(p) \cup EdgeIds(p)

IsTextNode(p, id) ==
  \E k \in DOMAIN p.entities : p.entities[k].uuid = id /\ p.entities[k].kind = "TextNode"

\* stageManager.getTextNodes()
getTextNodes(p) == SelectSeq(p.entities, LAMBDA e : e.kind = "TextNode")

\* What an operation gives back: the project after it, and the value it
\* returns or the Error it throws.
Return(p, op, value) ==
  [project |-> p, op |-> op, ok |-> TRUE, value |-> value, error |-> ""]

Throw(p, op, message) ==
  [project |-> p, op |-> op, ok |-> FALSE, value |-> [success |-> FALSE], error |-> message]

\* ---- resources and prompts

ResourceUris ==
  {"project://nodes", "project://edges", "project://screenshot", "project://tags"}

listResources(p) == Return(p, "listResources", [resources |-> ResourceUris])

\* readResource that hands out the list of tags itself and leaves the project
\* without it.
readResourceTakingTags(p, uri, captured) ==
  IF uri = "project://tags"
  THEN Return([p EXCEPT !.tags = <<>>], "readResource", [uri |-> uri, text |-> p.tags])
  ELSE Throw(p, "readResource", "Unknown resource URI")

\* readResource(uri); the screenshot is taken by the host and may fail.
readResource(p, uri, captured) ==
  CASE uri = "project://nodes" ->
         Return(p, "readResource", [uri |-> uri, text |-> getTextNodes(p)])
    [] uri = "project://edges" ->
         Return(p, "readResource", [uri |-> uri, text |-> p.edges])
    [] uri = "project://screenshot" ->
         IF captured THEN Return(p, "readResource", [uri |-> uri, blob |-> "png"])
         ELSE Throw(p, "readResource", "Failed to capture screenshot")
    [] uri = "project://tags" ->
         Return(p, "readResource", [uri |-> uri, text |-> p.tags])
    [] OTHER -> Throw(p, "readResource", "Unknown resource URI")

ToolNames ==
  {"addNode", "updateNode", "updateNodePosition", "updateNodeSize", "connectNodes",
   "updateEdgeDirection", "deleteNode"}

listTools(p) == Return(p, "listTools", [tools |-> ToolNames])

PromptNames == {"analyze-project", "suggest-organization"}

listPrompts(p) == Return(p, "listPrompts", [prompts |-> PromptNames])

getPrompt(p, name) ==
  CASE name = "analyze-project" ->
         Return(p, "getPrompt",
                [name |-> name, nodes |-> Len(getTextNodes(p)), edges |-> Len(p.edges),
                 tags |-> p.tags])
    [] name = "suggest-organization" ->
         Return(p, "getPrompt", [name |-> name, nodesData |-> getTextNodes(p)])
    [] OTHER -> Throw(p, "getPrompt", "Unknown prompt")

\* ---- tools

\* An entity of the project with one of its fields replaced.
WithEntity(p, id, Change(_)) ==
  [p EXCEPT !.entities =
     [k \in DOMAIN @ |-> IF @[k].uuid = id THEN Change(@[k]) ELSE @[k]]]

WithEdge(p, id, Change(_)) ==
  [p EXCEPT !.edges = [k \in DOMAIN @ |-> IF @[k].uuid = id THEN Change(@[k]) ELSE @[k]]]

\* nodeConnector.connectConnectableEntity(source, target): the host adds an
\* edge from source to target where both are entities; an edge is not a
\* connectable entity, and nothing is added for it.
connectConnectableEntity(p, sourceId, targetId) ==
  IF sourceId \in EntityIds(p) /\ targetId \in EntityIds(p)
  THEN [p EXCEPT !.edges = Append(@, EdgeOf(p.nextUuid, sourceId, targetId)),
                 !.nextUuid = @ + 1]
  ELSE p

\* stageManager.delete(node): the host removes the object and the edges at it.
deleteObject(p, id) ==
  [p EXCEPT !.entities = SelectSeq(@, LAMBDA e : e.uuid /= id),
            !.edges = SelectSeq(@, LAMBDA e : e.uuid /= id /\ e.source /= id
                                              /\ e.target /= id)]

\* edges.find(...): the first edge, in the order of getEdges(), that matches.
FirstEdge(p, Matches(_)) ==
  LET found == {k \in DOMAIN p.edges : Matches(p.edges[k])}
  IN IF found = {} THEN 0 ELSE CHOOSE k \in found : \A j \in found : k <= j

\* connectNodes: the host connects, then the first edge between the two in
\* either direction is looked up and its uuid returned, if there is one.
connectNodes(p, args) ==
  IF ~Has(p, args.sourceId) \/ ~Has(p, args.targetId)
  THEN Throw(p, "callTool", "Source or target node not found")
  ELSE LET q == connectConnectableEntity(p, args.sourceId, args.targetId)
           k == FirstEdge(q, LAMBDA e :
                  \/ (e.source = args.sourceId /\ e.target = args.targetId)
                  \/ (e.source = args.targetId /\ e.target = args.sourceId))
       IN Return(q, "callTool",
                 IF k = 0 THEN [success |-> TRUE]
                 ELSE [success |-> TRUE, edgeId |-> q.edges[k].uuid])

\* updateNode that asks only whether the object is there, not what it is.
updateNodeOfAnyKind(p, args) ==
  IF ~Has(p, args.nodeId)
  THEN Throw(p, "callTool", "Node not found or not a text node")
  ELSE Return(WithEntity(p, args.nodeId, LAMBDA e : [e EXCEPT !.text = args.text]),
              "callTool", [success |-> TRUE, nodeId |-> args.nodeId])

\* updateNode: the text of a text node is replaced.
updateNode(p, args) ==
  IF ~IsTextNode(p, args.nodeId)
  THEN Throw(p, "callTool", "Node not found or not a text node")
  ELSE Return(WithEntity(p, args.nodeId, LAMBDA e : [e EXCEPT !.text = args.text]),
              "callTool", [success |-> TRUE, nodeId |-> args.nodeId])

\* updateEdgeDirection that replaces every coordinate that is supplied.
updateEdgeDirectionByCoordinate(p, args) ==
  IF args.edgeId \notin EdgeIds(p) THEN Throw(p, "callTool", "Edge not found")
  ELSE LET Coordinate(name, old) == IF name \in DOMAIN args THEN args[name] ELSE old
           Change(e) ==
             [e EXCEPT
                !.sourceRectangleRate = [x |-> Coordinate("sourceRateX", @.x),
                                         y |-> Coordinate("sourceRateY", @.y)],
                !.targetRectangleRate = [x |-> Coordinate("targetRateX", @.x),
                                         y |-> Coordinate("targetRateY", @.y)]]
           q == WithEdge(p, args.edgeId, Change)
           k == FirstEdge(q, LAMBDA e : e.uuid = args.edgeId)
       IN Return(q, "callTool",
                 [success |-> TRUE, edgeId |-> args.edgeId,
                  sourceRectangleRate |-> q.edges[k].sourceRectangleRate,
                  targetRectangleRate |-> q.edges[k].targetRectangleRate])

\* updateEdgeDirection: a rate is replaced when both of its coordinates are
\* supplied; the answer carries the rates of the edge after the call.
updateEdgeDirection(p, args) ==
  IF args.edgeId \notin EdgeIds(p) THEN Throw(p, "callTool", "Edge not found")
  ELSE LET Supplied(a, b) == a \in DOMAIN args /\ b \in DOMAIN args
           Change(e) ==
             [e EXCEPT
                !.sourceRectangleRate =
                   IF Supplied("sourceRateX", "sourceRateY")
                   THEN [x |-> args.sourceRateX, y |-> args.sourceRateY] ELSE @,
                !.targetRectangleRate =
                   IF Supplied("targetRateX", "targetRateY")
                   THEN [x |-> args.targetRateX, y |-> args.targetRateY] ELSE @]
           q == WithEdge(p, args.edgeId, Change)
           k == FirstEdge(q, LAMBDA e : e.uuid = args.edgeId)
       IN Return(q, "callTool",
                 [success |-> TRUE, edgeId |-> args.edgeId,
                  sourceRectangleRate |-> q.edges[k].sourceRectangleRate,
                  targetRectangleRate |-> q.edges[k].targetRectangleRate])

callTool(p, name, args) ==
  CASE name = "addNode" ->
         LET width == IF "width" \in DOMAIN args THEN args.width ELSE DEFAULT_NODE_WIDTH
             height == IF "height" \in DOMAIN args THEN args.height
                       ELSE DEFAULT_NODE_HEIGHT
             node == TextNodeOf(p.nextUuid, args.text, args.x, args.y, width, height)
         IN Return([p EXCEPT !.entities = Append(@, node), !.nextUuid = @ + 1],
                   "callTool", [success |-> TRUE, nodeId |-> node.uuid])
    [] name = "updateNode" -> updateNode(p, args)
    [] name = "updateNodePosition" ->
         IF ~IsTextNode(p, args.nodeId)
         THEN Throw(p, "callTool", "Node not found or not a text node")
         ELSE Return(WithEntity(p, args.nodeId,
                                LAMBDA e : [e EXCEPT !.x = args.x, !.y = args.y]),
                     "callTool",
                     [success |-> TRUE, nodeId |-> args.nodeId, x |-> args.x, y |-> args.y])
    [] name = "updateNodeSize" ->
         IF ~IsTextNode(p, args.nodeId)
         THEN Throw(p, "callTool", "Node not found or not a text node")
         ELSE LET q == WithEntity(p, args.nodeId, LAMBDA e : [e EXCEPT !.width = args.width])
                  node == CHOOSE e \in Range(q.entities) : e.uuid = args.nodeId
              IN Return(q, "callTool",
                        [success |-> TRUE, nodeId |-> args.nodeId, width |-> args.width,
                         actualHeight |-> node.height])
    [] name = "connectNodes" -> connectNodes(p, args)
    [] name = "updateEdgeDirection" -> updateEdgeDirection(p, args)
    [] name = "deleteNode" ->
         IF ~Has(p, args.nodeId) THEN Throw(p, "callTool", "Node not found")
         ELSE Return(deleteObject(p, args.nodeId), "callTool",
                     [success |-> TRUE, nodeId |-> args.nodeId])
    [] OTHER -> Throw(p, "callTool", "Unknown tool")

\* ---- the HTTP endpoint handler

\* decodeURIComponent, on the path segments that carry a resource URI.
decodeURIComponent(segment) ==
  CASE segment = "project%3A%2F%2Fnodes" -> "project://nodes"
    [] segment = "project%3A%2F%2Fedges" -> "project://edges"
    [] segment = "project%3A%2F%2Fscreenshot" -> "project://screenshot"
    [] segment = "project%3A%2F%2Ftags" -> "project://tags"
    [] OTHER -> segment

\* path.replace(/^\/__mcp/, "").split("/").filter((p) => p), on a path given
\* by its segments.
cleanPathParts(path) == IF path /= <<>> /\ path[1] = "__mcp" THEN Tail(path) ELSE path

NotFound(p) ==
  [project |-> p, op |-> "none", ok |-> TRUE, value |-> [error |-> "Not found"],
   error |-> ""]

\* The routes: the operation that a method and the parts of a path select,
\* and its outcome.
routeParts(p, method, parts, body, captured) ==
  IF method = "GET" /\ parts = <<"resources">> THEN listResources(p)
  ELSE IF method = "GET" /\ Len(parts) = 2 /\ parts[1] = "resources"
  THEN readResource(p, decodeURIComponent(parts[2]), captured)
  ELSE IF method = "GET" /\ parts /= <<>> /\ parts[1] = "tools" THEN listTools(p)
  ELSE IF method = "POST" /\ Len(parts) = 2 /\ parts[1] = "tools"
  THEN callTool(p, parts[2], body)
  ELSE IF method = "GET" /\ parts = <<"prompts">> THEN listPrompts(p)
  ELSE IF method = "GET" /\ Len(parts) = 2 /\ parts[1] = "prompts"
  THEN getPrompt(p, parts[2])
  ELSE NotFound(p)

\* The operation that a request is routed to by window.__mcpHttpHandler.
route(p, request, captured) ==
  routeParts(p, request.method, cleanPathParts(request.path), request.body, captured)

\* What the handler returns for the outcome of the operation: status 200 with
\* what the operation returns, 404 where no route matched, 500 with the
\* message of an Error.
Respond(o) ==
  [project |-> o.project, op |-> o.op,
   response |-> IF ~o.ok THEN [status |-> 500, body |-> [error |-> o.error]]
                ELSE IF o.op = "none" THEN [status |-> 404, body |-> o.value]
                ELSE [status |-> 200, body |-> o.value]]

\* window.__mcpHttpHandler(request)
mcpHttpHandler(p, request, captured) == Respond(route(p, request, captured))

\* ---- the life of a server

NoCall == [op |-> "none"]

SvIdle == [phase |-> "idle"]

\* new MCPServer(project)
Constructed(p) ==
  [phase |-> "constructed", isRunning |-> FALSE, api |-> FALSE, handler |-> FALSE,
   polling |-> FALSE, project |-> p, last |-> NoCall,
   httpRunning |-> FALSE, httpApi |-> FALSE]

\* The entries of a directory in the order in which readDir lists them.
readDir(files) ==
  CHOOSE order \in [1..Cardinality(files) -> files] :
    \A a, b \in DOMAIN order : a /= b => order[a] /= order[b]

\* The response file of a request file: the same name, and what the handler
\* returned; it replaces the one that is there.
writeTextFile(q, entry, h) ==
  [q EXCEPT !.responses =
     {a \in @ : a.requestId /= entry.requestId}
       \cup {[requestId |-> entry.requestId, status |-> h.response.status,
              body |-> h.response.body]}]

Answered(prev, entry, h) ==
  [project |-> h.project, queue |-> writeTextFile(prev.queue, entry, h)]

\* One request file is read, handed to the handler and answered.
processEntry(prev, entry) ==
  Answered(prev, entry, mcpHttpHandler(prev.project, entry, TRUE))

\* One poll cycle handles the request files of the directory one after the
\* other.
processEntries(p, q) ==
  LET entries == readDir(q.requests)
      after[k \in 0..Len(entries)] ==
        IF k = 0 THEN [project |-> p, queue |-> q]
        ELSE processEntry(after[k - 1], entries[k])
  IN after[Len(entries)]

Polled(s, done) ==
  [server |-> [s EXCEPT !.project = done.project, !.polling = TRUE],
   queue |-> done.queue]

\* One call of processQueue: it returns at once unless the server is
\* running; else it handles the request files and schedules the next call.
processQueue(s, q) ==
  IF ~s.isRunning THEN [server |-> s, queue |-> q]
  ELSE Polled(s, processEntries(s.project, q))

\* The message of the Error of init(): the tag of the log, then the sentence.
AlreadyRunning == <<"[MCPServer]", "Server is already running. Cannot reinitialize.">>

\* The end of init(): the running flag is set.
Started(r) ==
  [server |-> [r.server EXCEPT !.isRunning = TRUE,
                               !.last = [op |-> "init", ok |-> TRUE, error |-> ""]],
   queue |-> r.queue]

\* init(): throws on a running server; else installs window.__mcpServer and
\* window.__mcpHttpHandler, calls processQueue for the first time, and then
\* sets the running flag.
init(s, q) ==
  IF s.isRunning
  THEN [server |-> [s EXCEPT !.last = [op |-> "init", ok |-> FALSE,
                                       error |-> AlreadyRunning]],
        queue |-> q]
  ELSE Started(processQueue([s EXCEPT !.api = TRUE, !.handler = TRUE], q))

\* dispose() that only clears the running flag.
disposeKeepingApi(s) ==
  IF s.isRunning
  THEN [s EXCEPT !.isRunning = FALSE, !.last = [op |-> "dispose", ok |-> TRUE, error |-> ""]]
  ELSE [s EXCEPT !.last = [op |-> "dispose", ok |-> TRUE, error |-> ""]]

\* dispose(): on a running server, clears the flag and deletes both globals.
dispose(s) ==
  IF s.isRunning
  THEN [s EXCEPT !.isRunning = FALSE, !.api = FALSE, !.handler = FALSE,
                 !.last = [op |-> "dispose", ok |-> TRUE, error |-> ""]]
  ELSE [s EXCEPT !.last = [op |-> "dispose", ok |-> TRUE, error |-> ""]]

\* ---- what the callers send

ObjectIds == {NoUuid} \cup Uuids

\* The identifiers that the callers of the update tools name: one that no
\* object has, the first text node, and the third object (a section or an edge).
UpdatedIds == {NoUuid, 1, 3}

RateArgs ==
  {[edgeId |-> e] : e \in UpdatedIds}
    \cup {[edgeId |-> 3, sourceRateX |-> 1],
          [edgeId |-> 3, targetRateX |-> 1, targetRateY |-> 99, sourceRateY |-> 1]}

ToolArgs(name) ==
  CASE name = "addNode" ->
         {[text |-> "a", x |-> 0, y |-> 0], [text |-> "a", x |-> 0, y |-> 0, width |-> 300]}
    [] name = "updateNode" -> {[nodeId |-> n, text |-> "b"] : n \in UpdatedIds}
    [] name = "updateNodePosition" ->
         {[nodeId |-> n, x |-> 100, y |-> 100] : n \in UpdatedIds}
    [] name = "updateNodeSize" -> {[nodeId |-> n, width |-> 300] : n \in UpdatedIds}
    [] name = "connectNodes" ->
         {[sourceId |-> 1, targetId |-> NoUuid], [sourceId |-> 1, targetId |-> 2],
          [sourceId |-> 2, targetId |-> 1], [sourceId |-> 1, targetId |-> 3]}
    [] name = "updateEdgeDirection" -> RateArgs
    [] name = "deleteNode" -> {[nodeId |-> n] : n \in ObjectIds}
    [] OTHER -> {EmptyMap}

ToolCalls ==
  UNION {{[name |-> name, args |-> a] : a \in ToolArgs(name)}
           : name \in ToolNames \cup {"renameNode"}}

\* A tool that adds an object is called only while there is a uuid left.
Fits(p, name) == name \in {"addNode", "connectNodes"} => p.nextUuid <= MaxObjects

\* The paths below the prefix, each with the method it is sent under.
EndpointRequests ==
  {[method |-> "GET", path |-> <<"resources">>, body |-> EmptyMap],
   [method |-> "GET", path |-> <<"resources", "project%3A%2F%2Fnodes">>, body |-> EmptyMap],
   [method |-> "GET", path |-> <<"resources", "project%3A%2F%2Fscreenshot">>,
    body |-> EmptyMap],
   [method |-> "GET", path |-> <<"resources", "project%3A%2F%2Fnone">>, body |-> EmptyMap],
   [method |-> "GET", path |-> <<"tools">>, body |-> EmptyMap],
   [method |-> "GET", path |-> <<"tools", "addNode">>, body |-> EmptyMap],
   [method |-> "POST", path |-> <<"tools", "addNode">>,
    body |-> [text |-> "a", x |-> 0, y |-> 0]],
   [method |-> "POST", path |-> <<"tools", "deleteNode">>, body |-> [nodeId |-> 1]],
   [method |-> "POST", path |-> <<"tools", "deleteNode">>, body |-> [nodeId |-> NoUuid]],
   [method |-> "GET", path |-> <<"prompts">>, body |-> EmptyMap],
   [method |-> "GET", path |-> <<"prompts", "analyze-project">>, body |-> EmptyMap],
   [method |-> "GET", path |-> <<"prompts", "none">>, body |-> EmptyMap],
   [method |-> "GET", path |-> <<"prompts", "analyze-project", "x">>, body |-> EmptyMap],
   [method |-> "POST", path |-> <<"resources">>, body |-> EmptyMap]}

\* The requests that reach the handler: under /mcp as the bridge forwards
\* them, or under /__mcp.
HttpRequests ==
  {[r EXCEPT !.path = pre \o @] : r \in EndpointRequests, pre \in {<<"mcp">>, <<"__mcp">>}}

\* ---- the calls

Called(s, o, arg) ==
  [s EXCEPT !.project = o.project,
            !.last = [op |-> o.op, arg |-> arg, ok |-> o.ok, value |-> o.value,
                      error |-> o.error]]

\* server.init()
InitServer ==
  /\ sv.phase = "constructed"
  /\ \E r \in {init(sv, br)} : sv' = r.server /\ br' = r.queue
  /\ UNCHANGED <<importVars, rt, idp, ex, cl, nz, ly, sz, ci>>

\* server.dispose()
DisposeServer ==
  /\ sv.phase = "constructed"
  /\ sv' = dispose(sv)
  /\ UNCHANGED <<importVars, rt, idp, ex, cl, nz, ly, sz, ci, br>>

\* window.__mcpServer.listResources(), listTools(), listPrompts()
ListViaApi ==
  /\ sv.phase = "constructed" /\ sv.api
  /\ \E o \in {listResources(sv.project), listTools(sv.project), listPrompts(sv.project)} :
       sv' = Called(sv, o, "")
  /\ UNCHANGED <<importVars, rt, idp, ex, cl, nz, ly, sz, ci, br>>

\* window.__mcpServer.readResource(uri)
ReadResourceViaApi ==
  /\ sv.phase = "constructed" /\ sv.api
  /\ \E uri \in ResourceUris \cup {"project://none"}, captured \in BOOLEAN :
       sv' = Called(sv, readResource(sv.project, uri, captured), uri)
  /\ UNCHANGED <<importVars, rt, idp, ex, cl, nz, ly, sz, ci, br>>

\* window.__mcpServer.getPrompt(name)
GetPromptViaApi ==
  /\ sv.phase = "constructed" /\ sv.api
  /\ \E name \in PromptNames \cup {"none"} :
       sv' = Called(sv, getPrompt(sv.project, name), name)
  /\ UNCHANGED <<importVars, rt, idp, ex, cl, nz, ly, sz, ci, br>>

\* window.__mcpServer.callTool(name, args)
CallToolViaApi ==
  /\ sv.phase = "constructed" /\ sv.api
  /\ \E c \in ToolCalls :
       /\ Fits(sv.project, c.name)
       /\ sv' = Called(sv, callTool(sv.project, c.name, c.args), c)
  /\ UNCHANGED <<importVars, rt, idp, ex, cl, nz, ly, sz, ci, br>>

\* window.__mcpHttpHandler(request)
HandleHttpRequest ==
  /\ sv.phase = "constructed" /\ sv.handler
  /\ \E request \in HttpRequests, captured \in BOOLEAN :
       /\ Len(request.path) >= 2 /\ request.path[Len(request.path) - 1] = "tools"
            => Fits(sv.project, request.path[Len(request.path)])
       /\ LET h == mcpHttpHandler(sv.project, request, captured)
          IN sv' = [sv EXCEPT !.project = h.project,
                              !.last = [op |-> h.op, arg |-> request,
                                        response |-> h.response]]
  /\ UNCHANGED <<importVars, rt, idp, ex, cl, nz, ly, sz, ci, br>>

ServerNext ==
  \/ InitServer
  \/ DisposeServer
  \/ ListViaApi
  \/ ReadResourceViaApi
  \/ GetPromptViaApi
  \/ CallToolViaApi
  \/ HandleHttpRequest

\* ---- the application at the file queue

\* The body of the loop of processQueue for one request file: the file is
\* read, handed to window.__mcpHttpHandler, and the response file of the same
\* name is written. A cycle takes every file that is in the directory, answered
\* before or not, so a file that stays is taken again by the next cycle. An
\* answer written after the last check of the bridge may fall before or after
\* the end of the wait. These are the cycles of a processor that polls (the
\* one that init() is meant to start, C27).
AppAnswers ==
  /\ br.phase = "bridge"
  /\ \E f \in br.requests, inWindow \in BOOLEAN :
       /\ br.slots[f.requestId].dispatched < MaxDispatches
       /\ br.slots[f.requestId].elapsed < MaxPolls => inWindow
       /\ f.method = "POST" => Fits(br.project, "addNode")
       /\ \E h \in {mcpHttpHandler(br.project, f, TRUE)} :
            br' = [writeTextFile(br, f, h) EXCEPT
                     !.project = h.project,
                     !.slots[f.requestId].dispatched = @ + 1,
                     !.slots[f.requestId].written =
                        Append(@, [status |-> h.response.status,
                                   body |-> h.response.body, op |-> h.op,
                                   inWindow |-> inWindow])]
  /\ UNCHANGED <<importVars, rt, idp, ex, cl, nz, ly, sz, ci, sv>>

BridgeNext == ReceiveRequest \/ CheckResponse \/ GiveUp \/ AppAnswers

\* ---- several servers in one window

\* The MCPServer instances of the window, one per open project.
MaxInstances == 2

Instances == 1..MaxInstances

\* No instance: window.__mcpServer is not there.
NoInstance == MaxInstances + 1

\* The instances as constructed, and the one whose methods the object
\* window.__mcpServer calls (the arrow functions of setupWindowAPI close over
\* the this of the instance that ran it).
InstancesOf(projects) ==
  [phase |-> "instances", servers |-> [k \in Instances |-> Constructed(projects[k])],
   owner |-> NoInstance]

\* The tools that the callers of the shared window.__mcpServer name.
SharedCalls ==
  {[name |-> "addNode", args |-> [text |-> "a", x |-> 0, y |-> 0]],
   [name |-> "updateNode", args |-> [nodeId |-> 1, text |-> "c"]],
   [name |-> "deleteNode", args |-> [nodeId |-> 2]]}

\* init() of one instance: setupWindowAPI assigns window.__mcpServer, whoever
\* had assigned it before.
InitInstance ==
  /\ sv.phase = "instances"
  /\ \E k \in Instances : \E r \in {init(sv.servers[k], br)} :
       /\ sv' = [sv EXCEPT !.servers[k] = r.server,
                           !.owner = IF r.server.last.ok THEN k ELSE @]
       /\ br' = r.queue
  /\ UNCHANGED <<importVars, rt, idp, ex, cl, nz, ly, sz, ci>>

\* dispose() of one instance: a running instance deletes window.__mcpServer,
\* whoever had assigned it.
DisposeInstance ==
  /\ sv.phase = "instances"
  /\ \E k \in Instances :
       sv' = [sv EXCEPT !.servers[k] = dispose(@),
                        !.owner = IF sv.servers[k].isRunning THEN NoInstance ELSE @]
  /\ UNCHANGED <<importVars, rt, idp, ex, cl, nz, ly, sz, ci, br>>

\* window.__mcpServer.callTool(name, args) on the shared global.
CallToolViaShared ==
  /\ sv.phase = "instances" /\ sv.owner /= NoInstance
  /\ \E c \in SharedCalls :
       /\ Fits(sv.servers[sv.owner].project, c.name)
       /\ sv' = [sv EXCEPT !.servers[sv.owner] =
                              Called(@, callTool(@.project, c.name, c.args), c)]
  /\ UNCHANGED <<importVars, rt, idp, ex, cl, nz, ly, sz, ci, br>>

InstancesNext == InitInstance \/ DisposeInstance \/ CallToolViaShared

\* ---- MCPHttpServer

NotInitialized == [status |-> 503, body |-> [error |-> "MCP Server not initialized"]]

\* handleRequest that goes to the routes without looking for the API first:
\* the call on the missing object is an Error, answered with 500.
handleRequestUnchecked(s, request, captured) ==
  IF ~s.api
  THEN [project |-> s.project, op |-> "none",
        response |-> [status |-> 500, body |-> [error |-> "mcpServer is undefined"]]]
  ELSE Respond(routeParts(s.project, request.method, request.path, request.body, captured))

\* window.__mcpHttpApi.handleRequest(method, path, body): 503 where
\* window.__mcpServer is absent, else the routes, on the path as it is.
handleRequest(s, request, captured) ==
  IF ~s.api
  THEN [project |-> s.project, op |-> "none", response |-> NotInitialized]
  ELSE Respond(routeParts(s.project, request.method, request.path, request.body, captured))

\* The requests made of window.__mcpHttpApi: the endpoints with no prefix,
\* and one under /mcp.
ApiRequests ==
  EndpointRequests
    \cup {[method |-> "GET", path |-> <<"mcp", "resources">>, body |-> EmptyMap]}

\* MCPHttpServer.start()
StartHttpServer ==
  /\ sv.phase = "constructed"
  /\ sv' = IF sv.httpRunning THEN [sv EXCEPT !.last = [op |-> "start", ok |-> FALSE]]
           ELSE [sv EXCEPT !.httpApi = TRUE, !.httpRunning = TRUE,
                           !.last = [op |-> "start", ok |-> TRUE]]
  /\ UNCHANGED <<importVars, rt, idp, ex, cl, nz, ly, sz, ci, br>>

\* MCPHttpServer.stop()
StopHttpServer ==
  /\ sv.phase = "constructed"
  /\ sv' = IF sv.httpRunning
           THEN [sv EXCEPT !.httpApi = FALSE, !.httpRunning = FALSE,
                           !.last = [op |-> "stop", ok |-> TRUE]]
           ELSE [sv EXCEPT !.last = [op |-> "stop", ok |-> FALSE]]
  /\ UNCHANGED <<importVars, rt, idp, ex, cl, nz, ly, sz, ci, br>>

\* window.__mcpHttpApi.handleRequest(method, path, body)
HandleRequestViaHttpApi ==
  /\ sv.phase = "constructed" /\ sv.httpApi
  /\ \E request \in ApiRequests, captured \in BOOLEAN :
       /\ Len(request.path) >= 2 /\ request.path[Len(request.path) - 1] = "tools"
            => Fits(sv.project, request.path[Len(request.path)])
       /\ \E h \in {handleRequest(sv, request, captured)} :
            sv' = [sv EXCEPT !.project = h.project,
                             !.last = [op |-> h.op, arg |-> request, via |-> "httpApi",
                                       response |-> h.response]]
  /\ UNCHANGED <<importVars, rt, idp, ex, cl, nz, ly, sz, ci, br>>

HttpApiNext ==
  \/ InitServer
  \/ DisposeServer
  \/ StartHttpServer
  \/ StopHttpServer
  \/ HandleRequestViaHttpApi

\* ========================================================== import actions

Install(nb) ==
  /\ pc' = nb.pc
  /\ entities' = nb.entities
  /\ entityMap' = nb.entityMap
  /\ sectionStack' = nb.sectionStack
  /\ sectionChildrenMap' = nb.sectionChildrenMap
  /\ rootEntities' = nb.rootEntities
  /\ pendingEdges' = nb.pendingEdges
  /\ edges' = nb.edges
  /\ diagnostics' = nb.diagnostics
  /\ direction' = nb.direction
  /\ UNCHANGED otherVars

CanRead == pc = "read" /\ Len(lines) < MaxLines

ReadDirection ==
  /\ CanRead
  /\ \E l \in DirectionLines :
       /\ lines' = Append(lines, l)
       /\ Install(SetDirection(Builder, l.id))

ReadContainerOpen ==
  /\ CanRead
  /\ \E l \in OpenLines :
       /\ lines' = Append(lines, l)
       /\ Install(ContainerPush(Builder, l.id, l.label))

ReadContainerClose ==
  /\ CanRead
  /\ lines' = Append(lines, CloseLine)
  /\ Install(ContainerPop(Builder, Len(lines) + 1))

ReadEdge ==
  /\ CanRead
  /\ \E l \in EdgeLines :
       /\ lines' = Append(lines, l)
       /\ Install(QueueEdge(Builder, l.src, l.dst, Len(lines) + 1))

ReadNode ==
  /\ CanRead
  /\ \E l \in NodeLines \cup {BadNodeLine} :
       /\ lines' = Append(lines, l)
       /\ Install(DeclareNode(Builder, l.id, l.label))

ReadUnrecognized ==
  /\ CanRead
  /\ lines' = Append(lines, UnrecognizedLine)
  /\ Install(ReportUnrecognized(Builder, Len(lines) + 1))

EndOfPass ==
  /\ pc = "read"
  /\ lines' = lines
  /\ Install(EndPass(Builder, Len(lines) + 1))

ImportInit ==
  /\ lines = <<>>
  /\ pc = "read"
  /\ entities = <<>>
  /\ entityMap = EmptyMap
  /\ sectionStack = <<>>
  /\ sectionChildrenMap = <<>>
  /\ rootEntities = <<>>
  /\ pendingEdges = <<>>
  /\ edges = <<>>
  /\ diagnostics = <<>>
  /\ direction = "TD"

\* The subsystems that a specification leaves alone stay idle.
LaterIdle == sz = SzIdle /\ ci = CiIdle /\ br = BrIdle /\ sv = SvIdle

RestIdle == cl = ClIdle /\ nz = NzIdle /\ ly = LyIdle /\ LaterIdle

Init == ImportInit /\ rt = RtIdle /\ idp = IdIdle /\ ex = ExIdle /\ RestIdle

Next ==
  \/ ReadDirection
  \/ ReadContainerOpen
  \/ ReadContainerClose
  \/ ReadEdge
  \/ ReadNode
  \/ ReadUnrecognized
  \/ EndOfPass

Spec == Init /\ [][Next]_vars

RoundTripInit ==
  /\ ImportInit /\ rt \in NodeItems \cup EdgeItems
  /\ idp = IdIdle /\ ex = ExIdle /\ RestIdle

SpecRoundTrip == RoundTripInit /\ [][RoundTripNext]_vars

IdsInit ==
  /\ ImportInit /\ rt = RtIdle /\ ex = ExIdle /\ RestIdle
  /\ idp \in {[phase |-> "naming", nodes |-> ns, nodeIds |-> <<>>] : ns \in IdNodes}

SpecIds == IdsInit /\ [][IdsNext]_vars

ExportInit ==
  /\ ImportInit /\ rt = RtIdle /\ idp = IdIdle /\ RestIdle
  /\ ex \in {ExportInput(p, sel, DefaultTexts) : p \in Memberships, sel \in Selections}

SpecExport == ExportInit /\ [][ExportNext]_vars

ExportTextInit ==
  /\ ImportInit /\ rt = RtIdle /\ idp = IdIdle /\ RestIdle
  /\ ex \in {ExportInput(p, sel, t)
               : p \in Memberships, sel \in Selections, t \in TextAssignments}

SpecExportText == ExportTextInit /\ [][ExportTextNext]_vars

ClassifyInit ==
  /\ ImportInit /\ rt = RtIdle /\ idp = IdIdle /\ ex = ExIdle
  /\ cl \in ClassifyInputs /\ nz = NzIdle /\ ly = LyIdle /\ LaterIdle

SpecClassify == ClassifyInit /\ [][ClassifyNext]_vars

NormalizeInit ==
  /\ ImportInit /\ rt = RtIdle /\ idp = IdIdle /\ ex = ExIdle
  /\ cl = ClIdle /\ nz \in NormalizeInputs /\ ly = LyIdle /\ LaterIdle

SpecNormalize == NormalizeInit /\ [][NormalizeNext]_vars

LayoutInit ==
  /\ ImportInit /\ rt = RtIdle /\ idp = IdIdle /\ ex = ExIdle
  /\ cl = ClIdle /\ nz = NzIdle /\ LaterIdle
  /\ \E n \in 0..MaxEntities : \E es \in BatchEdges(n) :
       \E o \in Origins, d \in {"TD", "LR"}, u \in {"rising", "falling"} :
         ly = LayoutInput(n, es, o, d, u)

SpecLayout == LayoutInit /\ [][LayoutNext]_vars

SpecLayoutFair == SpecLayout /\ WF_vars(LayoutNext)

SizingInit ==
  /\ ImportInit /\ rt = RtIdle /\ idp = IdIdle /\ ex = ExIdle
  /\ cl = ClIdle /\ nz = NzIdle /\ ly = LyIdle
  /\ ci = CiIdle /\ br = BrIdle /\ sv = SvIdle
  /\ \E k \in 0..MaxLines : \E ls \in [1..k -> SizingLines] : \E o \in Origins :
       sz = SizingInput(ls, o)

SpecSizing == SizingInit /\ [][SizingNext]_vars

\* The host document before a call: empty, or a container that holds a node.
HostLabel == "host"

HostDocuments ==
  {[entities |-> <<>>, children |-> <<>>],
   [entities |-> <<[kind |-> "Section", label |-> HostLabel],
                   [kind |-> "TextNode", label |-> HostLabel]>>,
    children |-> <<<<2>>, <<>>>>]}

\* The membership the export is given: n1 lies in s1, s1 in s2.
HostMembership ==
  [e \in Entities |-> IF e = "n1" THEN "s1" ELSE IF e = "s1" THEN "s2" ELSE "root"]

HostInit ==
  /\ lines = <<>> /\ pc = "read" /\ entityMap = EmptyMap /\ sectionStack = <<>>
  /\ rootEntities = <<>> /\ pendingEdges = <<>> /\ edges = <<>>
  /\ diagnostics = <<>> /\ direction = "TD"
  /\ \E h \in HostDocuments : entities = h.entities /\ sectionChildrenMap = h.children
  /\ ex = ExportInput(HostMembership, Forward, DefaultTexts)
  /\ rt = RtIdle /\ idp = IdIdle /\ RestIdle

\* One session on a host document: an export, then an import.
HostNext == ExportNext \/ (ex.phase = "written" /\ Next)

SpecHost == HostInit /\ [][HostNext]_vars

ConcurrentInit ==
  /\ ImportInit /\ rt = RtIdle /\ idp = IdIdle /\ ex = ExIdle
  /\ cl = ClIdle /\ nz = NzIdle /\ ly = LyIdle
  /\ sz = SzIdle /\ ci = TwoImports /\ br = BrIdle /\ sv = SvIdle

SpecConcurrent == ConcurrentInit /\ [][ConcurrentNext]_vars

ServerInit ==
  /\ ImportInit /\ rt = RtIdle /\ idp = IdIdle /\ ex = ExIdle
  /\ cl = ClIdle /\ nz = NzIdle /\ ly = LyIdle
  /\ sz = SzIdle /\ ci = CiIdle /\ br = BrIdle
  /\ sv \in {Constructed(p) : p \in StartProjects}

SpecServer == ServerInit /\ [][ServerNext]_vars

SpecHttpApi == ServerInit /\ [][HttpApiNext]_vars

InstancesInit ==
  /\ ImportInit /\ rt = RtIdle /\ idp = IdIdle /\ ex = ExIdle
  /\ cl = ClIdle /\ nz = NzIdle /\ ly = LyIdle
  /\ sz = SzIdle /\ ci = CiIdle /\ br = BrIdle
  /\ sv \in {InstancesOf(projects) : projects \in [Instances -> StartProjects]}

SpecInstances == InstancesInit /\ [][InstancesNext]_vars

BridgeInit ==
  /\ ImportInit /\ rt = RtIdle /\ idp = IdIdle /\ ex = ExIdle
  /\ cl = ClIdle /\ nz = NzIdle /\ ly = LyIdle
  /\ sz = SzIdle /\ ci = CiIdle /\ sv = SvIdle
  /\ br = BridgeStarted

SpecBridge == BridgeInit /\ [][BridgeNext]_vars

\* ------------------------------------------------ the input, as it was read

\* The identifiers declared by the lines read (node declarations and
\* container-opens; the empty identifier declares nothing).
DeclaredIds ==
  {lines[k].id : k \in {j \in DOMAIN lines :
                          lines[j].kind \in {"node", "open"} /\ lines[j].id /= ""}}

EdgeLineNos == {k \in DOMAIN lines : lines[k].kind = "edge"}

CountKind(upto, kind) == Cardinality({k \in 1..upto : lines[k].kind = kind})

\* Container-opens and container-closes interleave validly: no prefix of the
\* input closes more containers than it opened.
ValidInterleaving ==
  \A n \in 0..Len(lines) : CountKind(n, "close") <= CountKind(n, "open")

Opens == CountKind(Len(lines), "open")

Closes == CountKind(Len(lines), "close")

DiagCount(d) == Cardinality({j \in DOMAIN diagnostics : diagnostics[j] = d})

MessageCount(msg) ==
  Cardinality({j \in DOMAIN diagnostics : diagnostics[j].message = msg})

RealizedOf(k) == {j \in DOMAIN edges : edges[j].line = k}

\* Line k is the first line that declares identifier id.
FirstDeclaredAt(id) ==
  CHOOSE k \in DOMAIN lines :
    /\ lines[k].kind \in {"node", "open"} /\ lines[k].id = id
    /\ \A j \in 1..(k - 1) : ~(lines[j].kind \in {"node", "open"} /\ lines[j].id = id)

\* ------------------------------------------------------------------- C1

C2_ContainerBalance ==
  /\ (pc = "read" /\ ValidInterleaving) => Len(sectionStack) = Opens - Closes
  /\ (pc = "done" /\ ValidInterleaving /\ Opens = Closes) =>
       /\ sectionStack = <<>>
       /\ MessageCount("unterminated container") = 0
  /\ (pc = "done" /\ ValidInterleaving /\ Opens = Closes + 1) =>
       /\ MessageCount("unterminated container") = 1
       /\ sectionStack = <<>>
       /\ DOMAIN entityMap = DeclaredIds
       /\ Len(entities) = Cardinality(DeclaredIds)
  /\ pc = "aborted" => lines[Len(lines)] = BadNodeLine

\* Two opens, one close and a node inside: one container is left open.
C2_Witness ==
  /\ pc = "done"
  /\ ValidInterleaving
  /\ Opens = 2 /\ Closes = 1
  /\ MessageCount("unterminated container") = 1
  /\ Len(entities) = 3

\* ------------------------------------------------------------------- C3

Parents(e) ==
  {c \in DOMAIN sectionChildrenMap : e \in Range(sectionChildrenMap[c])}

RECURSIVE Descendants(_, _)
Descendants(S, n) ==
  IF n = 0 THEN S
  ELSE Descendants(S \cup UNION {Range(sectionChildrenMap[c]) : c \in S}, n - 1)

ProperDescendants(c) ==
  Descendants(Range(sectionChildrenMap[c]), Len(entities))

\* C3: the parent-to-child relation is a strict tree at any instant: every
\* entity has at most one parent and no container is its own ancestor.
C3_StrictTree ==
  /\ \A e \in DOMAIN entities : Cardinality(Parents(e)) <= 1
  /\ \A c \in DOMAIN entities : c \notin ProperDescendants(c)

\* ------------------------------------------------------------------- C4

\* The label the entity of identifier id must carry: the one of the last
\* node declaration of id, or, with none, the one of its container-open.
LastLabel(id) ==
  LET decl == {k \in DOMAIN lines : lines[k].kind = "node" /\ lines[k].id = id}
  IN IF decl = {} THEN lines[FirstDeclaredAt(id)].label
     ELSE lines[CHOOSE k \in decl : \A j \in decl : j <= k].label

\* C4: identifiers are unique within a pass: the identifier table maps the
\* declared identifiers one-to-one onto the created entities, a re-declaration
\* only replaces the label, and declaring a token a second time changes
\* nothing.
C4_UniqueIdentifiers ==
  /\ DOMAIN entityMap = DeclaredIds
  /\ Len(entities) = Cardinality(DeclaredIds)
  /\ \A a \in DOMAIN entityMap : \A b \in DOMAIN entityMap :
       entityMap[a] = entityMap[b] => a = b
  /\ \A id \in DeclaredIds : entities[entityMap[id]].label = LastLabel(id)
  /\ pc = "read" =>
       \A l \in NodeLines :
         DeclareNode(DeclareNode(Builder, l.id, l.label), l.id, l.label)
           = DeclareNode(Builder, l.id, l.label)

\* A is declared twice with different labels: one entity, the second label.
C4_Witness ==
  /\ Len(lines) >= 2
  /\ lines[1] = MkLine("node", "A", "section", "", "")
  /\ lines[2] = MkLine("node", "A", "x", "", "")
  /\ Len(entities) = 1
  /\ entities[1].label = "x"

\* ------------------------------------------------------------------- C5

IsBadLine(l) == l = UnrecognizedLine \/ l = BadNodeLine

\* What the pass built, without the diagnostics and the line numbers.
Built(b) ==
  <<b.entities, b.entityMap, b.sectionStack, b.sectionChildrenMap, b.rootEntities,
    [k \in DOMAIN b.pendingEdges |-> <<b.pendingEdges[k].source, b.pendingEdges[k].target>>],
    b.direction>>

\* C5: a bad line (unrecognized, or a node token with no identifier) never
\* aborts the import: it throws nothing, is reported as a diagnostic at its
\* line, and leaves what the pass builds as if the line were not there.
C5_BadLineIsolated ==
  /\ pc /= "aborted"
  /\ \A k \in DOMAIN lines :
       IsBadLine(lines[k]) =>
         Cardinality({j \in DOMAIN diagnostics : diagnostics[j].line = k}) >= 1
  /\ pc = "read" =>
       LET NotBad(l) == ~IsBadLine(l)
           rest == SelectSeq(lines, NotBad)
       IN Built(Replay(rest, Len(rest))) = Built(Builder)

\* ------------------------------------------------------------------- C6

EdgeLineSeq ==
  LET IsEdge(l) == l.kind = "edge" IN SelectSeq(lines, IsEdge)

C7_ShapeRoundTrip ==
  (rt.kind = "node" /\ rt.phase = "read") =>
    /\ rt.token.shape = rt.shape
    /\ Trim(rt.token.label) = Trim(rt.label)

\* ------------------------------------------------------------------- C8

\* C8: for each EdgeStyle, the line written for an edge of that style is read
\* back as an edge of the same style between the same two endpoints.
C8_EdgeStyleRoundTrip ==
  (rt.kind = "edge" /\ rt.phase = "read") =>
    /\ rt.edge.ok
    /\ rt.edge.style = rt.style
    /\ rt.edge.source = rt.source
    /\ rt.edge.target = rt.target

\* ------------------------------------------------------------------- C9

\* C9: within one export call the identifiers given to the nodes are pairwise
\* distinct, whatever the texts, and two nodes with the text A get A and A_2.
C9_IdentifiersDistinct ==
  idp.phase = "naming" =>
    /\ \A i \in DOMAIN idp.nodeIds : \A j \in DOMAIN idp.nodeIds :
         idp.nodeIds[i] = idp.nodeIds[j] => i = j
    /\ (/\ Len(idp.nodeIds) >= 2
        /\ idp.nodes[1].text = <<"A">> /\ idp.nodes[2].text = <<"A">>)
       => (idp.nodeIds[1] = <<"A">> /\ idp.nodeIds[2] = <<"A", "_", "2">>)

\* The texts A, A, A_2: the third node cannot keep A_2.
C9_Witness ==
  /\ idp.phase = "naming"
  /\ Len(idp.nodes) = 3
  /\ idp.nodes[1].text = <<"A">>
  /\ idp.nodes[2].text = <<"A">>
  /\ idp.nodes[3].text = <<"A", "_", "2">>
  /\ idp.nodeIds = << <<"A">>, <<"A", "_", "2">>, <<"A", "_", "2", "_", "2">> >>

\* ------------------------------------------------------------------ C10

\* The section whose subgraph ... end encloses line k of the text ("root" at
\* top level), read off the text itself.
RECURSIVE OpenAt(_, _)
OpenAt(out, k) ==
  IF k = 0 THEN <<>>
  ELSE LET before == OpenAt(out, k - 1)
       IN IF out[k].kind = "subgraph" THEN Append(before, out[k].entity)
          ELSE IF out[k].kind = "end" THEN Pop(before)
          ELSE before

EnclosingAt(out, k) ==
  LET open == OpenAt(out, k - 1) IN IF open = <<>> THEN "root" ELSE Top(open)

\* The nearest selected section above e in the host document.
RECURSIVE NearestSelected(_, _, _, _)
NearestSelected(parent, chosen, e, n) ==
  IF n = 0 \/ parent[e] = "root" THEN "root"
  ELSE IF parent[e] \in chosen THEN parent[e]
  ELSE NearestSelected(parent, chosen, parent[e], n - 1)

EmittedAt(e) ==
  {k \in DOMAIN ex.out : ex.out[k].entity = e /\ ex.out[k].kind \in {"node", "subgraph"}}

\* C10: every selected entity is written exactly once, inside the innermost
\* selected section that contains it and at top level when there is none;
\* an entity that is not selected is not written.
C10_EmittedOnceUnderInnermost ==
  ex.phase = "written" =>
    \A e \in Entities :
      IF e \in Range(ex.selected)
      THEN /\ Cardinality(EmittedAt(e)) = 1
           /\ \A k \in EmittedAt(e) :
                EnclosingAt(ex.out, k)
                  = NearestSelected(ex.parent, Range(ex.selected), e,
                                    Cardinality(Sections) + 1)
      ELSE EmittedAt(e) = {}

\* n1 lies in s3 in s2 in s1, all three selected: n1 is written under s3.
C10_Witness ==
  /\ ex.phase = "written"
  /\ ex.parent["n1"] = "s3" /\ ex.parent["s3"] = "s2" /\ ex.parent["s2"] = "s1"
  /\ ex.selected = <<"n1", "s1", "s2", "s3">>
  /\ \E k \in DOMAIN ex.out :
       /\ ex.out[k] = OutLine("node", "n1", 3)
       /\ EnclosingAt(ex.out, k) = "s3"


\* ------------------------------------------------ the classifier's claims

Classified == cl.phase = "classified"

\* The (source, target) pairs of a sequence of edge descriptors.
DescriptorPairs(es) == {<<es[k].source, es[k].target>> : k \in DOMAIN es}

\* C16: an edge statement with m identifiers on the left and n on the right,
\* joined by `&`, expands to exactly m*n edge descriptors, one for every
\* (source, target) pair, all with the style and the label of the statement
\* (stated for the statements written with `-->` and no label).
C16_FanExpansion ==
  (Classified /\ cl.written.form = "edge"
     /\ cl.written.style = "solid" /\ cl.written.labelForm = "none") =>
    /\ cl.result.kind = "edge"
    /\ Len(cl.result.edges) = Len(cl.written.lefts) * Len(cl.written.rights)
    /\ DescriptorPairs(cl.result.edges)
         = {<< <<a>>, <<b>> >> : a \in Range(cl.written.lefts),
                                 b \in Range(cl.written.rights)}
    /\ \A k \in DOMAIN cl.result.edges :
         cl.result.edges[k].style = "solid" /\ cl.result.edges[k].label = <<>>

\* C17: an edge line written with one of the five operators, between one
\* identifier and another, with or without a label, is classified as an edge
\* of that operator's style.
C17_OperatorStyle ==
  (Classified /\ cl.written.form = "edge"
     /\ Len(cl.written.lefts) = 1 /\ Len(cl.written.rights) = 1) =>
    /\ cl.result.kind = "edge"
    /\ \A k \in DOMAIN cl.result.edges :
         cl.result.edges[k].style = cl.written.style

CategoryOrder == <<"direction", "open", "close", "edge", "node">>

\* Whether a line has the form of a category, whatever the other categories.
Matches(category, t) ==
  CASE category = "direction" -> IsDirectionLine(t)
    [] category = "open" -> IsContainerOpen(t)
    [] category = "close" -> IsContainerClose(t)
    [] category = "edge" -> IsEdgeStatement(t)
    [] OTHER -> t /= <<>>

MatchingPatterns(t) ==
  {k \in DOMAIN ShapePatterns :
     MatchShape(t, ShapePatterns[k].never, ShapePatterns[k].open,
                ShapePatterns[k].close).ok}

MostSpecific(t) ==
  {k \in MatchingPatterns(t) :
     \A g \in MatchingPatterns(t) :
       Len(ShapePatterns[k].open) >= Len(ShapePatterns[g].open)}

KthOf(S, k) == CHOOSE i \in S : Cardinality({j \in S : j < i}) = k - 1

\* out holds Trim(raw[i]) for exactly the lines i that Qualifies accepts, in
\* the order of raw.
ExactlyTheLines(raw, out, Qualifies(_)) ==
  LET idx == {i \in DOMAIN raw : Qualifies(Trim(raw[i]))} IN
  /\ Len(out) = Cardinality(idx)
  /\ \A k \in DOMAIN out : out[k] = Trim(raw[KthOf(idx, k)])

\* A line that starts with one of the directive keywords as the grammar
\* writes them, the keyword being a word of its own.
StartsWithKeyword(t) ==
  /\ t /= <<>>
  /\ t[1] \in {"style", "linkStyle", "classDef"}
  /\ (Len(t) = 1 \/ t[2] = " ")

\* A line that starts, whatever the case of its letters, with a directive
\* keyword and a blank.
StartsWithDirective(t) ==
  /\ Len(t) >= 2
  /\ toLowerCase(t)[1] \in {"style", "linkstyle", "classdef"}
  /\ t[2] = " "

IsCommentLine(t) == t /= <<>> /\ t[1] = "%%"

QualifiesAsClaimed(t) == t /= <<>> /\ ~IsCommentLine(t) /\ ~StartsWithKeyword(t)

QualifiesAsAmended(t) == t /= <<>> /\ ~IsCommentLine(t) /\ ~StartsWithDirective(t)

\* C20 as stated: the normalizer returns exactly the trimmed lines that are
\* not empty, not comment lines and do not start with a directive keyword
\* (style, linkStyle, classDef), in their order, with no diagnostic, and
\* normalizing its output changes nothing.
C20_ExactlyNonDirectiveLines ==
  nz.phase \in {"normalized", "renormalized"} =>
    /\ ExactlyTheLines(nz.raw, nz.out, QualifiesAsClaimed)
    /\ nz.diagnostics = <<>>
    /\ nz.phase = "renormalized" => nz.again = nz.out

\* C20 amended: the normalizer returns exactly the trimmed lines that are not
\* empty, not comment lines and do not start, whatever the case of the
\* letters, with a directive keyword followed by a blank, in their order,
\* with no diagnostic, and normalizing its output changes nothing.
C20_ExactlyKeptLines ==
  nz.phase \in {"normalized", "renormalized"} =>
    /\ ExactlyTheLines(nz.raw, nz.out, QualifiesAsAmended)
    /\ nz.diagnostics = <<>>
    /\ nz.phase = "renormalized" => nz.again = nz.out

\* A directive in capitals was dropped, the word style alone on its line was
\* kept after a blank line went, and a second run changed nothing.
C20_Witness ==
  /\ nz.phase = "renormalized"
  /\ nz.raw = << <<"STYLE", " ", "a">>, <<" ", "style", " ">> >>
  /\ nz.out = << <<"style">> >>
  /\ nz.again = nz.out

\* ---------------------------------------------------- the layout's claims

InDegree(es, v) == Cardinality({e \in es : e[2] = v})

Successors(es, S) == {e[2] : e \in {d \in es : d[1] \in S}}

RECURSIVE ReachFrom(_, _, _)
ReachFrom(es, S, k) ==
  IF k = 0 THEN S ELSE ReachFrom(es, S \cup Successors(es, S), k - 1)

\* Some entity of the batch reaches itself along the edges.
HasCycle(n, es) ==
  \E v \in 1..n : v \in ReachFrom(es, Successors(es, {v}), n)

\* The layer that a position lies in: its rank along the axis of the
\* direction hint (downwards for TD, rightwards for LR).
LayerAt(p) ==
  IF ly.direction = "TD" THEN (p.y - ly.origin.y) \div SpacingY
  ELSE (p.x - ly.origin.x) \div SpacingX

\* The rank of a position within its layer, along the other axis.
RankInLayer(p) ==
  IF ly.direction = "TD" THEN p.x - ly.origin.x ELSE p.y - ly.origin.y

PlacedRuns == {r \in DOMAIN ly.runs : ly.runs[r].placed}

Diamond == {<<1, 2>>, <<1, 3>>, <<2, 4>>, <<3, 4>>}

\* C13: when the edges of the batch are acyclic, the layout puts exactly the
\* entities of in-degree 0 in layer 0 and every edge leads to a strictly
\* higher layer; the edges A->B, A->C, B->D, C->D give {A}, {B,C}, {D}.
C13_KahnLayers ==
  (ly.phase = "built" /\ ~HasCycle(ly.n, ly.edges)) =>
    \A r \in PlacedRuns :
      LET pos == ly.runs[r].position IN
      /\ \A v \in 1..ly.n : (InDegree(ly.edges, v) = 0) <=> (LayerAt(pos[v]) = 0)
      /\ \A e \in ly.edges : LayerAt(pos[e[1]]) < LayerAt(pos[e[2]])
      /\ (ly.n = 4 /\ ly.edges = Diamond) =>
           <<LayerAt(pos[1]), LayerAt(pos[2]), LayerAt(pos[3]), LayerAt(pos[4])>>
             = <<0, 1, 1, 2>>

\* The number of columns of the grid for n entities: the least c >= 1 with
\* c * c >= n.
GridColumns(n) ==
  CHOOSE c \in 1..(n + 1) : c * c >= n /\ (c = 1 \/ (c - 1) * (c - 1) < n)

\* Every entity of the batch stands on the cell of the grid that its place
\* in the declaration order gives it.
OnGrid(pos) ==
  /\ DOMAIN pos = 1..ly.n
  /\ \A k \in 1..ly.n :
       /\ pos[k].x = ly.origin.x + ((k - 1) % GridColumns(ly.n)) * SpacingX
       /\ pos[k].y = ly.origin.y + ((k - 1) \div GridColumns(ly.n)) * SpacingY

AllPlaced == ly.phase = "built" /\ PlacedRuns = DOMAIN ly.runs

WrittenEdgeLines == {k \in DOMAIN ex.edgeLines : ex.edgeLines[k].kind = "edge"}

LinesOfEdge(e) ==
  {k \in WrittenEdgeLines :
     ex.edgeLines[k].source = e.source /\ ex.edgeLines[k].target = e.target}

\* C11: export writes an edge line for an edge of the document exactly when
\* both its endpoints are selected: no edge with an endpoint outside the
\* selection is written, none between two selected entities is left out,
\* and no line is written for an edge the document does not have.
C11_EdgeWrittenIffBothSelected ==
  ex.phase = "written" =>
    /\ \A k \in DOMAIN ex.edges :
         Cardinality(LinesOfEdge(ex.edges[k]))
           = (IF {ex.edges[k].source, ex.edges[k].target} \subseteq Range(ex.selected)
              THEN 1 ELSE 0)
    /\ \A k \in WrittenEdgeLines :
         \E j \in DOMAIN ex.edges :
           ex.edges[j].source = ex.edgeLines[k].source
             /\ ex.edges[j].target = ex.edgeLines[k].target
    /\ Len(ex.text) = Len(ex.out) + Len(ex.edgeLines)

\* n1, n2 and s2 are selected and s1 is not: the edges between n1 and n2 and
\* the edge s2 -> n1 are written, the edge n2 -> s1 is not.
C11_Witness ==
  /\ ex.phase = "written"
  /\ Range(ex.selected) = {"n1", "n2", "s2"}
  /\ Len(ex.edgeLines) = 3
  /\ \A k \in DOMAIN ex.edgeLines : ex.edgeLines[k].target /= "s1"
  /\ ex.text[Len(ex.text)] = <<"T", " ", "-", "-", ">", " ", "a">>

\* ------------------------------------------------------------------ C12

\* The classifications of the lines of the written text.
TextKinds ==
  LET normalized == normalizeText(ex.text)
  IN [k \in DOMAIN normalized |-> classifyLine(normalized[k]).kind]

\* Number of lines of a kind among the first n.
KindCount(kinds, kind, n) == Cardinality({k \in 1..n : kinds[k] = kind})

\* Container-opens and container-closes are balanced and properly nested.
Balanced(kinds) ==
  /\ \A n \in DOMAIN kinds : KindCount(kinds, "close", n) <= KindCount(kinds, "open", n)
  /\ KindCount(kinds, "close", Len(kinds)) = KindCount(kinds, "open", Len(kinds))

\* C12: the text that export writes is valid import input: its container
\* lines are balanced and properly nested, every line is classified as a
\* container-open, a container-close, an edge or a node, and importing it
\* gives no diagnostic.
C12_ExportIsValidImport ==
  ex.phase = "reimported" =>
    /\ Balanced(TextKinds)
    /\ \A k \in DOMAIN TextKinds : TextKinds[k] \in {"open", "close", "edge", "node"}
    /\ ex.reimport.pc = "done"
    /\ ex.reimport.diagnostics = <<>>

\* ------------------------------------------------------------------ C21

Encloses(outer, inner) ==
  /\ outer.x1 <= inner.x1 /\ outer.y1 <= inner.y1
  /\ outer.x2 >= inner.x2 /\ outer.y2 >= inner.y2

\* No container lies below itself.
Acyclic(children) ==
  \A c \in DOMAIN children : c \notin Below(children, Range(children[c]), Len(children))

AllSized == sz.phase = "placed" /\ ContainersOf(sz.children) = Range(sz.sized)

BeforeLastLine == Replay(lines, Len(lines) - 1)

\* C22: a container-close line read while the container stack is empty is
\* reported as one diagnostic at its line and is not fatal: the pass goes on,
\* the stack stays empty and no entity, identifier, membership or queued edge
\* is created or changed; the entity that the next line declares as a node
\* or creates as a container is attached to the document root.
C22_StrayCloseReported ==
  [][/\ (sectionStack = <<>> /\ lines' = Append(lines, CloseLine)) =>
          /\ pc' = "read"
          /\ sectionStack' = <<>>
          /\ UNCHANGED <<entities, entityMap, sectionChildrenMap, rootEntities,
                         pendingEdges, edges, direction>>
          /\ diagnostics' =
               Append(diagnostics, Diag(Len(lines) + 1, "close without open container"))
     /\ (/\ lines /= <<>> /\ lines[Len(lines)] = CloseLine
         /\ BeforeLastLine.sectionStack = <<>>
         /\ \E l \in OpenLines \cup NodeLines :
              /\ lines' = Append(lines, l)
              /\ l.kind = "node" \/ l.id \notin DOMAIN entityMap) =>
          entityMap'[lines'[Len(lines')].id] \in Range(rootEntities')
    ]_vars

\* A close was read with no container open, after an entity was created, and
\* a node or container line was read after it.
C22_Witness ==
  ~(\E k \in DOMAIN lines :
      /\ k > 1 /\ k < Len(lines)
      /\ lines[k] = CloseLine
      /\ Replay(lines, k - 1).sectionStack = <<>>
      /\ Replay(lines, k - 1).entities /= <<>>
      /\ lines[k + 1].kind \in {"open", "node"}
      /\ pc = "read")

\* ------------------------------------------------------------------ C23

\* The entities that were in the document before the call.
HostEntities == {k \in DOMAIN entities : entities[k].label = HostLabel}

\* C23: no step of an import deletes or changes an entity that the host
\* document held before the call, or its children; a step adds at most one
\* entity, at the end, made by the entity factory (registered under the
\* identifier of its line); no step of an export changes an entity, the
\* membership, the texts or the edges of the document.
C23_HostDocumentKept ==
  [][/\ \A k \in HostEntities :
          /\ k \in DOMAIN entities'
          /\ entities'[k] = entities[k]
          /\ sectionChildrenMap'[k] = sectionChildrenMap[k]
     /\ Len(entities') \in {Len(entities), Len(entities) + 1}
     /\ Len(entities') = Len(entities) + 1 =>
          /\ Len(entities') \in Range(entityMap')
          /\ SubSeq(entities', 1, Len(entities)) = entities
     /\ ex' /= ex =>
          /\ UNCHANGED importVars
          /\ ex'.parent = ex.parent /\ ex'.texts = ex.texts
          /\ ex'.edges = ex.edges /\ ex'.selected = ex.selected
    ]_vars

\* An import into a document that held entities has created a container
\* with a node in it and has ended, after the export wrote its text.
C23_Witness ==
  ~(/\ pc = "done"
    /\ ex.phase = "written" /\ ex.text /= <<>>
    /\ HostEntities /= {}
    /\ \E c \in DOMAIN entities \ HostEntities : sectionChildrenMap[c] /= <<>>)

\* ------------------------------------------------------------------ C24

\* What an import shows of its work: the entities it created with their
\* places, the edges and the diagnostics.
Outcome(b) ==
  <<b.pc, b.entities, b.sectionChildrenMap, b.rootEntities, b.edges, b.diagnostics>>

\* Import i on its own, over the lines it has read so far.
Alone(i) ==
  LET ls == ci.runs[i].lines
      b == Replay(ls, Len(ls))
  IN IF ci.runs[i].b.pc = "done" THEN EndPass(b, Len(ls) + 1) ELSE b

ApiCalled(op) ==
  sv.phase = "constructed" /\ sv.last.op = op /\ "ok" \in DOMAIN sv.last

ReadOperations == {"listResources", "readResource", "listTools", "listPrompts", "getPrompt"}

\* C28: listResources, readResource, listTools, listPrompts and getPrompt leave
\* the nodes, edges and tags of the project as they are; a step that changes
\* them is a callTool.
C28_OnlyCallToolChangesProject ==
  [][sv.phase = "constructed" =>
       /\ sv'.last.op \in ReadOperations => sv'.project = sv.project
       /\ sv'.project /= sv.project => sv'.last.op = "callTool"]_vars

\* The tags have been read from a project that a tool had changed before.
C28_Witness ==
  /\ ApiCalled("readResource") /\ sv.last.ok /\ sv.last.arg = "project://tags"
  /\ sv.project \notin StartProjects

\* C29: a connectNodes(sourceId, targetId) that succeeds returns the id of an
\* edge of the project that goes from sourceId to targetId.
C29_ConnectNodesReturnsItsEdge ==
  (ApiCalled("callTool") /\ sv.last.ok /\ sv.last.arg.name = "connectNodes") =>
    /\ "edgeId" \in DOMAIN sv.last.value
    /\ \E k \in DOMAIN sv.project.edges :
         /\ sv.project.edges[k].uuid = sv.last.value.edgeId
         /\ sv.project.edges[k].source = sv.last.arg.args.sourceId
         /\ sv.project.edges[k].target = sv.last.arg.args.targetId

\* The server but for the outcome of the last call.
Server(s) == [s EXCEPT !.last = NoCall]

\* C30: init() on a running server throws "Server is already running. Cannot
\* reinitialize." and changes nothing; init() on a stopped server succeeds;
\* dispose() on a running server clears isRunning and removes the API and the
\* handler; dispose() on a stopped server changes nothing.
C30_InitAndDispose ==
  [][sv.phase = "constructed" =>
       /\ (sv'.last.op = "init" /\ sv.isRunning) =>
            /\ ~sv'.last.ok
            /\ sv'.last.error[Len(sv'.last.error)]
                 = "Server is already running. Cannot reinitialize."
            /\ Server(sv') = Server(sv)
       /\ (sv'.last.op = "init" /\ ~sv.isRunning) =>
            sv'.last.ok /\ sv'.isRunning /\ sv'.api /\ sv'.handler
       /\ (sv'.last.op = "dispose" /\ sv.isRunning) =>
            ~sv'.isRunning /\ ~sv'.api /\ ~sv'.handler
       /\ (sv'.last.op = "dispose" /\ ~sv.isRunning) => Server(sv') = Server(sv)]_vars

\* init() has thrown on a running server.
C30_Witness ==
  /\ sv.phase = "constructed" /\ sv.last.op = "init" /\ ~sv.last.ok
  /\ sv.isRunning /\ sv.api /\ sv.handler

\* The handler has answered a request that the bridge forwarded under /mcp.
Forwarded ==
  /\ sv.phase = "constructed" /\ "response" \in DOMAIN sv.last
  /\ sv.last.arg.path[1] = "mcp"

\* C26: a request forwarded under /mcp reaches the operation that the bridge
\* advertises for it: the three lists are answered with status 200, and a
\* resource, a prompt or a tool named in the path is read, got or called.
C26_AdvertisedEndpointsReach ==
  Forwarded =>
    LET method == sv.last.arg.method
        rest == Tail(sv.last.arg.path)
    IN /\ (method = "GET" /\ rest = <<"resources">>) =>
            sv.last.op = "listResources" /\ sv.last.response.status = 200
       /\ (method = "GET" /\ rest = <<"tools">>) =>
            sv.last.op = "listTools" /\ sv.last.response.status = 200
       /\ (method = "GET" /\ rest = <<"prompts">>) =>
            sv.last.op = "listPrompts" /\ sv.last.response.status = 200
       /\ (method = "GET" /\ Len(rest) = 2 /\ rest[1] = "resources") =>
            sv.last.op = "readResource"
       /\ (method = "GET" /\ Len(rest) = 2 /\ rest[1] = "prompts") =>
            sv.last.op = "getPrompt"
       /\ (method = "POST" /\ Len(rest) = 2 /\ rest[1] = "tools") =>
            sv.last.op = "callTool"

\* C27: from the return of init() to dispose(), a call of processQueue is
\* scheduled, so that the request files are read and answered.
C27_QueueProcessorActive ==
  (sv.phase = "constructed" /\ sv.isRunning) => sv.polling

\* ---------------------------------------------------------------- HTTP bridge

\* The requests that the bridge hands to the application.
IsForwarded(slot) ==
  slot.request.method = "GET"
    \/ (slot.request.method = "POST" /\ JSONparse(slot.request.bodyStr).ok)

ToolStep ==
  /\ sv.phase = "constructed"
  /\ "ok" \in DOMAIN sv'.last /\ sv'.last.op = "callTool"

\* Whether a tool call names an object that the project does not hold, or
\* not as what the tool needs.
NamesMissing(p, c) ==
  CASE c.name \in {"updateNode", "updateNodePosition", "updateNodeSize"} ->
         ~\E k \in DOMAIN p.entities :
            p.entities[k].uuid = c.args.nodeId /\ p.entities[k].kind = "TextNode"
    [] c.name = "deleteNode" ->
         /\ \A k \in DOMAIN p.entities : p.entities[k].uuid /= c.args.nodeId
         /\ \A k \in DOMAIN p.edges : p.edges[k].uuid /= c.args.nodeId
    [] c.name = "connectNodes" ->
         \E id \in {c.args.sourceId, c.args.targetId} :
           /\ \A k \in DOMAIN p.entities : p.entities[k].uuid /= id
           /\ \A k \in DOMAIN p.edges : p.edges[k].uuid /= id
    [] c.name = "updateEdgeDirection" ->
         \A k \in DOMAIN p.edges : p.edges[k].uuid /= c.args.edgeId
    [] OTHER -> FALSE

ListedTools ==
  {"addNode", "updateNode", "updateNodePosition", "updateNodeSize", "connectNodes",
   "updateEdgeDirection", "deleteNode"}

\* C31: a tool call that names a missing entity raises an error and leaves the
\* project as it was; a tool name outside the listed tools raises "Unknown
\* tool"; no call that raises an error changes the project.
C31_FailedToolChangesNothing ==
  [][ToolStep =>
       /\ NamesMissing(sv.project, sv'.last.arg) =>
            ~sv'.last.ok /\ sv'.project = sv.project
       /\ sv'.last.arg.name \notin ListedTools =>
            ~sv'.last.ok /\ sv'.last.error = "Unknown tool" /\ sv'.project = sv.project
       /\ ~sv'.last.ok => sv'.project = sv.project]_vars

\* updateNode has been refused for the section of a project with a text node.
C31_Witness ==
  /\ ApiCalled("callTool") /\ ~sv.last.ok
  /\ sv.last.arg.name = "updateNode"
  /\ \E k \in DOMAIN sv.project.entities :
       /\ sv.project.entities[k].uuid = sv.last.arg.args.nodeId
       /\ sv.project.entities[k].kind = "Section"

\* The rate that updateEdgeDirection leaves: the supplied pair when both
\* coordinates are supplied, else the previous rate.
RateAfter(args, xName, yName, previous) ==
  IF xName \in DOMAIN args /\ yName \in DOMAIN args
  THEN [x |-> args[xName], y |-> args[yName]]
  ELSE previous

\* C38: updateEdgeDirection replaces the source rate only when both
\* sourceRateX and sourceRateY are supplied and the target rate only when both
\* targetRateX and targetRateY are supplied; the call reports success with the
\* rates of the edge after it, and nothing else in the project changes.
C38_RatesReplacedByPairs ==
  [][(ToolStep /\ sv'.last.arg.name = "updateEdgeDirection"
        /\ ~NamesMissing(sv.project, sv'.last.arg)) =>
       LET args == sv'.last.arg.args
           Expected(e) ==
             IF e.uuid /= args.edgeId THEN e
             ELSE [e EXCEPT
                     !.sourceRectangleRate = RateAfter(args, "sourceRateX", "sourceRateY", @),
                     !.targetRectangleRate = RateAfter(args, "targetRateX", "targetRateY", @)]
       IN /\ sv'.last.ok /\ sv'.last.value.success
          /\ sv'.project.entities = sv.project.entities
          /\ sv'.project.tags = sv.project.tags
          /\ DOMAIN sv'.project.edges = DOMAIN sv.project.edges
          /\ \A k \in DOMAIN sv.project.edges :
               /\ sv'.project.edges[k] = Expected(sv.project.edges[k])
               /\ sv.project.edges[k].uuid = args.edgeId =>
                    /\ sv'.last.value.sourceRectangleRate
                         = sv'.project.edges[k].sourceRectangleRate
                    /\ sv'.last.value.targetRectangleRate
                         = sv'.project.edges[k].targetRectangleRate]_vars

\* A call that supplied the target rate in full and one coordinate of the
\* source rate has succeeded: the target rate is the supplied one and the
\* source rate is the default.
C38_Witness ==
  /\ ApiCalled("callTool") /\ sv.last.ok
  /\ sv.last.arg.name = "updateEdgeDirection"
  /\ DOMAIN sv.last.arg.args = {"edgeId", "targetRateX", "targetRateY", "sourceRateY"}
  /\ sv.last.value.targetRectangleRate = [x |-> 1, y |-> 99]
  /\ sv.last.value.sourceRectangleRate = CenterRate

\* The handler has answered a request under /__mcp, the prefix that it removes.
Handled ==
  /\ sv.phase = "constructed" /\ "response" \in DOMAIN sv.last
  /\ sv.last.arg.path[1] = "__mcp"

\* Whether a request is one of the six endpoints: method and path below the
\* prefix, with no segment more.
IsEndpoint(method, rest) ==
  \/ method = "GET" /\ rest \in {<<"resources">>, <<"tools">>, <<"prompts">>}
  \/ method = "GET" /\ Len(rest) = 2 /\ rest[1] \in {"resources", "prompts"}
  \/ method = "POST" /\ Len(rest) = 2 /\ rest[1] = "tools"

\* C32: the handler answers an Error of an operation with status 500 and the
\* message, and a request that is none of the six endpoints, a path with a
\* segment more included, with status 404 and without invoking an operation.
C32_ErrorsAndUnknownPaths ==
  Handled =>
    LET method == sv.last.arg.method
        rest == Tail(sv.last.arg.path)
        response == sv.last.response
    IN /\ ~IsEndpoint(method, rest) =>
            /\ response = [status |-> 404, body |-> [error |-> "Not found"]]
            /\ sv.last.op = "none"
       /\ IsEndpoint(method, rest) =>
            /\ sv.last.op /= "none"
            /\ response.status \in {200, 500}
            /\ response.status = 500 =>
                 /\ DOMAIN response.body = {"error"}
                 /\ response.body.error /= ""

\* A request through window.__mcpHttpApi is the step that is taken.
HttpApiStep ==
  /\ sv.phase = "constructed"
  /\ "via" \in DOMAIN sv'.last /\ sv'.last.via = "httpApi"

\* C33: handleRequest answers 503 "MCP Server not initialized", and invokes no
\* operation, exactly when window.__mcpServer is absent at the request, which
\* is before any init() and after dispose(), whatever the order of start()
\* and init().
C33_UnavailableWhenNoServer ==
  [][HttpApiStep =>
       /\ sv.api <=> sv.isRunning
       /\ sv'.last.response = NotInitialized <=> ~sv.isRunning
       /\ ~sv.isRunning => sv'.last.op = "none" /\ sv'.project = sv.project]_vars

\* A request has been answered 503 on a project that a tool call through the
\* HTTP API had changed: after a dispose().
C33_Witness ==
  /\ sv.phase = "constructed" /\ "via" \in DOMAIN sv.last
  /\ sv.last.response = NotInitialized
  /\ ~sv.isRunning /\ sv.project \notin StartProjects

\* The answers of the application to request i that come from an operation of
\* the server (callTool, readResource, getPrompt and the three lists).
Operated(i) ==
  {k \in DOMAIN br.slots[i].written : br.slots[i].written[k].op /= "none"}

\* The requests that call the tool addNode under the prefix of the handler.
IsAddNode(slot) ==
  /\ slot.state /= "none"
  /\ slot.request.method = "POST"
  /\ slot.request.path = <<"__mcp", "tools", "addNode">>
  /\ JSONparse(slot.request.bodyStr).ok

C37_SharedGlobalServesRunning ==
  sv.phase = "instances" =>
    ((\E k \in Instances : sv.servers[k].isRunning) =>
       /\ sv.owner /= NoInstance
       /\ sv.servers[sv.owner].isRunning)

\* ------------------------------------------------------------ grid placement

\* The cell of a position: its column and its row on the grid at the origin.
CellOf(pos) ==
  [col |-> (pos.x - ly.origin.x) \div SpacingX, row |-> (pos.y - ly.origin.y) \div SpacingY]

\* C39: the grid of n entities has max(1, ceil(sqrt(n))) columns, the i-th
\* entity in declaration order (from 0) stands at column i mod columns and
\* row floor(i / columns), no two entities of the batch share a cell, and the
\* rows used are at most ceil(n / columns).
C39_GridPlacement ==
  ly.phase = "built" =>
    \A r \in PlacedRuns :
      LET columns == GridColumns(ly.n)
          at == ly.runs[r].position
      IN /\ OnGrid(at)
         /\ \A k \in 1..ly.n :
              /\ CellOf(at[k]) = [col |-> (k - 1) % columns, row |-> (k - 1) \div columns]
              /\ CellOf(at[k]).row < (ly.n + columns - 1) \div columns
         /\ \A j, k \in 1..ly.n : j /= k => CellOf(at[j]) /= CellOf(at[k])

\* A batch of three entities or more is placed: two columns or more, and the
\* third entity opens the second row of a grid of two columns.
C39_Witness ==
  /\ ly.phase = "built" /\ ly.n >= 3
  /\ \E r \in PlacedRuns :
       /\ CellOf(ly.runs[r].position[2]) = [col |-> 1, row |-> 0]
       /\ ly.n <= 4 => CellOf(ly.runs[r].position[3]) = [col |-> 0, row |-> 1]

=========================================================================
